---- MODULE Spec2Model ----
(***************************************************************************)
(* Carnage: the metadata cache and refresh pipeline.                       *)
(*                                                                         *)
(*   core/cache.py             CacheManager (payload file + timestamp file)*)
(*   core/portage/overlays.py  fetch_extra, get_or_cache, clear_cache      *)
(*   core/portage/use.py       get_or_cache_useflags, clear_useflags_cache *)
(*   tui/widgets/*_tab.py      the worker threads that call them           *)
(*                                                                         *)
(* Time is counted in hours, the unit of the configured cache max ages.    *)
(* A file is a record [exists, bytes]; bytes is a sequence of small        *)
(* integers.  Strings (overlay names, flag names, descriptions) are        *)
(* abstracted to positive integers.                                        *)
(***************************************************************************)
EXTENDS Integers, Sequences, FiniteSets, TLC

\* ------------------------------------------------------------------ bounds
MaxTime == 3
MaxOverlays == 2
MaxFlags == 2
MaxAge == 1
MaxThreads == 2
MaxTasks == 3

\* --------------------------------------------------------------- constants
CACHE_KEY == "overlays_data"
CACHE_KEY_USEFLAGS == "useflags_data"
SKIPPED_PACKAGE_COUNT == -4
NO_CACHE_PACKAGE_COUNT == -3
FAILED_PACKAGE_COUNT == -1

Keys == {CACHE_KEY, CACHE_KEY_USEFLAGS}

\* Python's None / True / False as values of a dict to be serialized.
PyNone == 1000
PyFalse == 1001
PyTrue == 1002

VARIABLES
    data_file,      \* key -> the file <cache_dir>/<key>.msgpack
    meta_file,      \* key -> the file <cache_dir>/<key>.meta
    now,            \* datetime.now(), in hours
    config,         \* the Configuration singleton's values
    repos,          \* names of the directories under ctx.repos_path
    tab,            \* the UI tab at work: "overlays" or "use"
    last,           \* the call that has just returned, and what it did
    written,        \* history: key -> the last set / delete / clear of it
    threads,        \* thread -> the CacheManager call it is inside, and where
    conc,           \* history: key -> which calls overlapped on it, who wrote it
    ui,             \* the widgets' fields and their worker threads
    enrich,         \* the fetch_extra call in progress and its thread pool
    catalog,        \* the fetch call in progress: its document and its result
    eix,            \* the last get_all_useflags call: eix's lines, the names
    priv            \* the last call into privilege.py: its inputs, its result

vars == <<data_file, meta_file, now, config, repos, tab, last, written,
          threads, conc, ui, enrich, catalog, eix, priv>>

\* ------------------------------------------------------------------- files
NoFile == [exists |-> FALSE, bytes |-> <<>>]
File(b) == [exists |-> TRUE, bytes |-> b]

\* ---------------------------------------------------------------- msgpack
\* msgpack.packb of one scalar: nil 0xc0, false 0xc2, true 0xc3, positive
\* fixint 0x00..0x7f, negative fixint 0xe0..0xff.
PackValue(v) ==
    IF v = PyNone THEN 192
    ELSE IF v = PyFalse THEN 194
    ELSE IF v = PyTrue THEN 195
    ELSE IF v >= 0 THEN v ELSE 256 + v

IsValueByte(b) == b \in (0..127) \cup {192, 194, 195} \cup (224..255)

UnpackValue_unsigned(b) ==
    IF b = 192 THEN PyNone
    ELSE IF b = 194 THEN PyFalse
    ELSE IF b = 195 THEN PyTrue
    ELSE b

UnpackValue(b) ==
    IF b = 192 THEN PyNone
    ELSE IF b = 194 THEN PyFalse
    ELSE IF b = 195 THEN PyTrue
    ELSE IF b <= 127 THEN b ELSE b - 256

\* A dict is the sequence of its values in key order (the keys are fixed per
\* record type and left out); it is packed as a fixmap header 0x80|n and its
\* values.
PackDict(d) == <<128 + Len(d)>> \o [i \in 1..Len(d) |-> PackValue(d[i])]

RECURSIVE PackDicts(_)
PackDicts(ds) ==
    IF ds = <<>> THEN <<>> ELSE PackDict(Head(ds)) \o PackDicts(Tail(ds))

\* msgpack.packb(data, use_bin_type=True) of a list of dicts: fixarray header
\* 0x90|n and the elements.
packb(data) == <<144 + Len(data)>> \o PackDicts(data)

\* One dict at bytes[pos..]: [tag, val, pos]; tag "incomplete" when the input
\* ends inside it, "format" on a byte that is no header / value.
UnpackDict(bytes, pos) ==
    IF pos > Len(bytes) THEN [tag |-> "incomplete", val |-> <<>>, pos |-> pos]
    ELSE IF bytes[pos] \notin 128..143
         THEN [tag |-> "format", val |-> <<>>, pos |-> pos]
    ELSE LET n == bytes[pos] - 128 IN
         IF pos + n > Len(bytes)
         THEN IF \E i \in (pos + 1)..Len(bytes) : ~IsValueByte(bytes[i])
              THEN [tag |-> "format", val |-> <<>>, pos |-> pos]
              ELSE [tag |-> "incomplete", val |-> <<>>, pos |-> pos]
         ELSE IF \E i \in 1..n : ~IsValueByte(bytes[pos + i])
         THEN [tag |-> "format", val |-> <<>>, pos |-> pos]
         ELSE [tag |-> "ok",
               val |-> [i \in 1..n |-> UnpackValue(bytes[pos + i])],
               pos |-> pos + n + 1]

RECURSIVE UnpackDicts(_, _, _)
UnpackDicts(bytes, pos, n) ==
    IF n = 0 THEN [tag |-> "ok", val |-> <<>>, pos |-> pos]
    ELSE LET d == UnpackDict(bytes, pos) IN
         IF d.tag # "ok" THEN d
         ELSE LET r == UnpackDicts(bytes, d.pos, n - 1) IN
              IF r.tag # "ok" THEN r
              ELSE [tag |-> "ok", val |-> <<d.val>> \o r.val, pos |-> r.pos]

\* msgpack.unpackb(packed, raw=False) (msgpack >= 1.0):
\*   "ok"          the list of dicts
\*   "FormatError" invalid byte: FormatError(ValueError, UnpackException)
\*   "ValueError"  incomplete input: ValueError("Unpack failed: incomplete
\*                 input"); trailing bytes: ExtraData(ValueError).  Neither
\*                 is an UnpackException.
unpackb(bytes) ==
    IF bytes = <<>> THEN [tag |-> "ValueError", val |-> <<>>]
    ELSE IF bytes[1] \notin 144..159 THEN [tag |-> "FormatError", val |-> <<>>]
    ELSE LET r == UnpackDicts(bytes, 2, bytes[1] - 144) IN
         IF r.tag = "format" THEN [tag |-> "FormatError", val |-> <<>>]
         ELSE IF r.tag = "incomplete" THEN [tag |-> "ValueError", val |-> <<>>]
         ELSE IF r.pos <= Len(bytes) THEN [tag |-> "ValueError", val |-> <<>>]
         ELSE [tag |-> "ok", val |-> r.val]

\* ------------------------------------------------------------- timestamps
\* str(datetime.now().timestamp()): the decimal digits of the time.
RECURSIVE Digits(_)
Digits(n) ==
    IF n < 10 THEN <<n>> ELSE Digits(n \div 10) \o <<n % 10>>

timestamp_str(t) == Digits(t)

RECURSIVE DigitsValue(_)
DigitsValue(s) ==
    IF s = <<>> THEN 0 ELSE 10 * DigitsValue(SubSeq(s, 1, Len(s) - 1)) + s[Len(s)]

\* float(f.read().strip()): ValueError on an empty file or a non-digit.
parse_float(s) ==
    IF s = <<>> \/ \E i \in 1..Len(s) : s[i] \notin 0..9
    THEN [tag |-> "ValueError", val |-> 0]
    ELSE [tag |-> "ok", val |-> DigitsValue(s)]

\* ------------------------------------------------------------ CacheManager
exists(key) == data_file[key].exists

\* get: [tag, val]; "value" the payload, "none" for None, "raise" when
\* unpackb raises something the except clause does not name.
read_payload(cache_path) ==
    IF ~cache_path.exists THEN [tag |-> "none", val |-> <<>>]
    ELSE LET u == unpackb(cache_path.bytes) IN
         IF u.tag = "ok" THEN [tag |-> "value", val |-> u.val]
         ELSE IF u.tag = "FormatError" THEN [tag |-> "none", val |-> <<>>]
         ELSE [tag |-> "raise", val |-> <<>>]

get(key) == read_payload(data_file[key])

read_age_unparsable_as_zero(meta_path, datetime_now) ==
    IF ~meta_path.exists THEN [tag |-> "none", age |-> 0]
    ELSE LET p == parse_float(meta_path.bytes) IN
         [tag |-> "age", age |-> datetime_now - p.val]

\* get_age: [tag, age]; tag "none" for None.
read_age(meta_path, datetime_now) ==
    IF ~meta_path.exists THEN [tag |-> "none", age |-> 0]
    ELSE LET p == parse_float(meta_path.bytes) IN
         IF p.tag # "ok" THEN [tag |-> "none", age |-> 0]
         ELSE [tag |-> "age", age |-> datetime_now - p.val]

get_age(key) == read_age(meta_file[key], now)

is_stale_at_max_age(key, max_age) ==
    LET age == get_age(key) IN
    IF age.tag = "none" THEN TRUE ELSE age.age >= max_age

is_stale_after_grace(key, max_age) ==
    LET age == get_age(key) IN
    IF age.tag = "none" THEN TRUE ELSE age.age > max_age + 1

is_stale(key, max_age) ==
    LET age == get_age(key) IN
    IF age.tag = "none" THEN TRUE ELSE age.age > max_age

list_keys == {k \in Keys : data_file[k].exists}

set_keeping_timestamp(key, data) ==
    /\ data_file' = [data_file EXCEPT ![key] = File(packb(data))]
    /\ meta_file' = [meta_file EXCEPT ![key] =
                        IF @.exists THEN @ ELSE File(timestamp_str(now))]
    /\ written' = [written EXCEPT ![key] =
                      [what |-> "set", at |-> now, data |-> data, damage |-> "none"]]

\* set(key, data): the payload file, then the timestamp file.
set(key, data) ==
    /\ data_file' = [data_file EXCEPT ![key] = File(packb(data))]
    /\ meta_file' = [meta_file EXCEPT ![key] = File(timestamp_str(now))]
    /\ written' = [written EXCEPT ![key] =
                      [what |-> "set", at |-> now, data |-> data, damage |-> "none"]]

\* delete(key): its return value.
delete_result(key) == data_file[key].exists

delete_payload_only(key) ==
    /\ data_file' = [data_file EXCEPT ![key] = NoFile]
    /\ meta_file' = meta_file
    /\ written' = [written EXCEPT ![key] =
                      [what |-> "removed", at |-> now, data |-> <<>>, damage |-> "none"]]

delete(key) ==
    /\ data_file' = [data_file EXCEPT ![key] = NoFile]
    /\ meta_file' = [meta_file EXCEPT ![key] = NoFile]
    /\ written' = [written EXCEPT ![key] =
                      [what |-> "removed", at |-> now, data |-> <<>>, damage |-> "none"]]

clear_result_counting_timestamps ==
    Cardinality({k \in Keys : data_file[k].exists})
      + Cardinality({k \in Keys : meta_file[k].exists})

\* clear(): its return value.
clear_result == Cardinality({k \in Keys : data_file[k].exists})

clear ==
    /\ data_file' = [k \in Keys |-> NoFile]
    /\ meta_file' = [k \in Keys |-> NoFile]
    /\ written' = [k \in Keys |->
                      [what |-> "removed", at |-> now, data |-> <<>>, damage |-> "none"]]

\* ----------------------------------------------------------------- records
\* Overlay: [name, installed, package_count]; the other fields are parsed
\* once and never read by the cache pipeline.
to_dict(o) == <<o.name, o.installed, o.package_count>>

from_dict(d) == [name |-> d[1], installed |-> d[2], package_count |-> d[3]]

to_dicts(os) == [i \in 1..Len(os) |-> to_dict(os[i])]

from_dicts(ds) == [i \in 1..Len(ds) |-> from_dict(ds[i])]

\* UseFlag: [name, description].
useflag_to_dict(u) == <<u.name, u.description>>

useflag_from_dict(d) == [name |-> d[1], description |-> d[2]]

useflags_to_dicts(us) == [i \in 1..Len(us) |-> useflag_to_dict(us[i])]

useflags_from_dicts(ds) == [i \in 1..Len(ds) |-> useflag_from_dict(ds[i])]

\* ---------------------------------------------------------------- fetchers
\* What one per-overlay count query can give: a failure (-1), "no remote
\* cache" (-3), or a number of packages.
CountOutcomes == {FAILED_PACKAGE_COUNT, NO_CACHE_PACKAGE_COUNT, 1}

\* The catalogs fetch_extra can return: n overlays named 1..n in document
\* order, installed set from the repositories directory, package_count
\* skipped or counted.
fetch_extra_catalogs ==
    UNION {
      { [i \in 1..n |->
           [name |-> i,
            installed |-> IF i \in repos THEN PyTrue ELSE PyFalse,
            package_count |-> IF config.skip_package_counting
                              THEN SKIPPED_PACKAGE_COUNT ELSE c[i]]]
        : c \in [1..n -> CountOutcomes] }
      : n \in 0..MaxOverlays }

\* fetch_extra: raises (URLError, ParseError) or returns a catalog.
fetch_extra_outcomes ==
    {[tag |-> "raise", val |-> <<>>]}
    \cup {[tag |-> "ok", val |-> cat] : cat \in fetch_extra_catalogs}

\* Sequences over S of length at most n.
RECURSIVE SeqsUpTo(_, _)
SeqsUpTo(S, n) ==
    IF n = 0 THEN {<<>>}
    ELSE LET shorter == SeqsUpTo(S, n - 1) IN
         shorter \cup {Append(q, x) : q \in shorter, x \in S}

\* Sequences over S without repetition, of length at most n.
RECURSIVE DistinctSeqs(_, _)
DistinctSeqs(S, n) ==
    IF n = 0 THEN {<<>>}
    ELSE LET shorter == DistinctSeqs(S, n - 1)
             longer == {Append(q, x) : q \in shorter, x \in S}
         IN  shorter \cup
             {q \in longer : \A i, j \in 1..Len(q) : i # j => q[i] # q[j]}

\* get_all_useflags: raises (CalledProcessError) or returns cleaned names,
\* each once.
get_all_useflags_outcomes ==
    {[tag |-> "raise", val |-> <<>>]}
    \cup {[tag |-> "ok", val |-> q] : q \in DistinctSeqs(1..MaxFlags, MaxFlags)}

\* _parse_useflag_descriptions: the description files on this system
\* describe flag 1 (as text 7) or nothing.
useflag_descriptions == {<<>>, <<7>>}

descriptions_get(descriptions, name) ==
    IF name \in 1..Len(descriptions) THEN descriptions[name] ELSE PyNone

\* A flag name n > 0 is a cleaned name, -n is "+" followed by it, 0 is a name
\* of special characters only.
only_special(flag_name) == flag_name = 0

lstrip_plus(flag_name) == IF flag_name < 0 THEN -flag_name ELSE flag_name

RECURSIVE build_useflags(_, _)
build_useflags(names, descriptions) ==
    IF names = <<>> THEN <<>>
    ELSE LET flag_name == Head(names)
             rest == build_useflags(Tail(names), descriptions)
             clean_name == lstrip_plus(flag_name)
             d1 == descriptions_get(descriptions, clean_name)
         IN  IF only_special(flag_name) THEN rest
             ELSE <<[name |-> clean_name,
                     description |-> IF d1 # PyNone THEN d1
                                     ELSE descriptions_get(descriptions, flag_name)]>>
                  \o rest

\* ----------------------------------------------------------- orchestration
\* What the history says of the entry under key: whether and how long ago
\* it was set, whether it was damaged since, whether the payload set was the
\* empty list, whether a record of it has a skipped / not-cached count.
EntryFacts(key) ==
    LET w == written[key] IN
    [what |-> w.what,
     damage |-> w.damage,
     age |-> IF w.what = "set" THEN now - w.at ELSE -1,
     empty |-> w.data = <<>>,
     sentinel |-> \E i \in 1..Len(w.data) :
                     /\ Len(w.data[i]) = 3
                     /\ w.data[i][3] \in {SKIPPED_PACKAGE_COUNT, NO_CACHE_PACKAGE_COUNT}]

NoFacts ==
    [what |-> "never", damage |-> "none", age |-> -1, empty |-> TRUE, sentinel |-> FALSE]

\* last: the call (op, key, force_refresh), the entry as it was before the
\* call (pre), the number of times the call invoked its fetcher, how it
\* ended ("return" / "raise"), the records returned, and for delete / clear
\* the value returned (ret).
NoCall ==
    [op |-> "none", key |-> "", force |-> FALSE, pre |-> NoFacts, fetched |-> 0,
     outcome |-> "none", result |-> <<>>, ret |-> 0]

Called(op, key, force, fetched, outcome, result) ==
    [op |-> op, key |-> key, force |-> force, pre |-> EntryFacts(key),
     fetched |-> fetched, outcome |-> outcome, result |-> result, ret |-> 0]

counts_usable_unless_skipped(cached_overlays) ==
    ~\E i \in 1..Len(cached_overlays) :
        cached_overlays[i].package_count = SKIPPED_PACKAGE_COUNT

\* not has_skipped_counts and not has_non_cached
counts_usable(cached_overlays) ==
    LET has_skipped_counts ==
            \E i \in 1..Len(cached_overlays) :
                cached_overlays[i].package_count = SKIPPED_PACKAGE_COUNT
        has_non_cached ==
            \E i \in 1..Len(cached_overlays) :
                cached_overlays[i].package_count = NO_CACHE_PACKAGE_COUNT
    IN  ~has_skipped_counts /\ ~has_non_cached

overlays_cache_check_skipped_only(force_refresh) ==
    IF ~force_refresh /\ exists(CACHE_KEY)
       /\ ~is_stale(CACHE_KEY, config.overlays_cache_max_age)
    THEN LET cached_data == get(CACHE_KEY) IN
         IF cached_data.tag = "raise" THEN [tag |-> "raise", val |-> <<>>]
         ELSE IF cached_data.tag = "none" \/ cached_data.val = <<>>
         THEN [tag |-> "miss", val |-> <<>>]
         ELSE LET cached_overlays == from_dicts(cached_data.val) IN
              IF config.skip_package_counting
              THEN IF \A i \in 1..Len(cached_overlays) :
                         cached_overlays[i].package_count = SKIPPED_PACKAGE_COUNT
                   THEN [tag |-> "hit", val |-> cached_overlays]
                   ELSE [tag |-> "miss", val |-> <<>>]
              ELSE IF counts_usable(cached_overlays)
              THEN [tag |-> "hit", val |-> cached_overlays]
              ELSE [tag |-> "miss", val |-> <<>>]
    ELSE [tag |-> "miss", val |-> <<>>]

\* The cache check of get_or_cache: "hit" with the cached overlays, "miss"
\* (fall through to the fetch), or "raise" when get raises.
overlays_cache_check(force_refresh) ==
    IF ~force_refresh /\ exists(CACHE_KEY)
       /\ ~is_stale(CACHE_KEY, config.overlays_cache_max_age)
    THEN LET cached_data == get(CACHE_KEY) IN
         IF cached_data.tag = "raise" THEN [tag |-> "raise", val |-> <<>>]
         ELSE IF cached_data.tag = "none" \/ cached_data.val = <<>>
         THEN [tag |-> "miss", val |-> <<>>]
         ELSE LET cached_overlays == from_dicts(cached_data.val) IN
              IF config.skip_package_counting
              THEN [tag |-> "hit", val |-> cached_overlays]
              ELSE IF counts_usable(cached_overlays)
              THEN [tag |-> "hit", val |-> cached_overlays]
              ELSE [tag |-> "miss", val |-> <<>>]
    ELSE [tag |-> "miss", val |-> <<>>]

get_or_cache_retrying(force_refresh) ==
    LET chk == overlays_cache_check(force_refresh) IN
    \/ /\ chk.tag = "hit"
       /\ last' = Called("get_or_cache", CACHE_KEY, force_refresh, 0, "return", chk.val)
       /\ UNCHANGED <<data_file, meta_file, written>>
    \/ /\ chk.tag = "raise"
       /\ last' = Called("get_or_cache", CACHE_KEY, force_refresh, 0, "raise", <<>>)
       /\ UNCHANGED <<data_file, meta_file, written>>
    \/ /\ chk.tag = "miss"
       /\ \E f1 \in fetch_extra_outcomes, f2 \in fetch_extra_outcomes :
            LET fetched == IF f1.tag = "raise" THEN 2 ELSE 1
                f == IF f1.tag = "raise" THEN f2 ELSE f1
            IN  IF f.tag = "raise"
                THEN /\ last' = Called("get_or_cache", CACHE_KEY, force_refresh,
                                       fetched, "raise", <<>>)
                     /\ UNCHANGED <<data_file, meta_file, written>>
                ELSE /\ set(CACHE_KEY, to_dicts(f.val))
                     /\ last' = Called("get_or_cache", CACHE_KEY, force_refresh,
                                       fetched, "return", f.val)

get_or_cache(force_refresh) ==
    LET chk == overlays_cache_check(force_refresh) IN
    \/ /\ chk.tag = "hit"
       /\ last' = Called("get_or_cache", CACHE_KEY, force_refresh, 0, "return", chk.val)
       /\ UNCHANGED <<data_file, meta_file, written>>
    \/ /\ chk.tag = "raise"
       /\ last' = Called("get_or_cache", CACHE_KEY, force_refresh, 0, "raise", <<>>)
       /\ UNCHANGED <<data_file, meta_file, written>>
    \/ /\ chk.tag = "miss"
       /\ \E f \in fetch_extra_outcomes :
            IF f.tag = "raise"
            THEN /\ last' = Called("get_or_cache", CACHE_KEY, force_refresh, 1, "raise", <<>>)
                 /\ UNCHANGED <<data_file, meta_file, written>>
            ELSE /\ set(CACHE_KEY, to_dicts(f.val))
                 /\ last' = Called("get_or_cache", CACHE_KEY, force_refresh, 1, "return", f.val)

useflags_cache_check_serving_empty(force_refresh) ==
    IF ~force_refresh /\ exists(CACHE_KEY_USEFLAGS)
       /\ ~is_stale(CACHE_KEY_USEFLAGS, config.use_cache_max_age)
    THEN LET cached_data == get(CACHE_KEY_USEFLAGS) IN
         IF cached_data.tag = "raise" THEN [tag |-> "raise", val |-> <<>>]
         ELSE IF cached_data.tag = "none"
         THEN [tag |-> "miss", val |-> <<>>]
         ELSE [tag |-> "hit", val |-> useflags_from_dicts(cached_data.val)]
    ELSE [tag |-> "miss", val |-> <<>>]

useflags_cache_check(force_refresh) ==
    IF ~force_refresh /\ exists(CACHE_KEY_USEFLAGS)
       /\ ~is_stale(CACHE_KEY_USEFLAGS, config.use_cache_max_age)
    THEN LET cached_data == get(CACHE_KEY_USEFLAGS) IN
         IF cached_data.tag = "raise" THEN [tag |-> "raise", val |-> <<>>]
         ELSE IF cached_data.tag = "none" \/ cached_data.val = <<>>
         THEN [tag |-> "miss", val |-> <<>>]
         ELSE [tag |-> "hit", val |-> useflags_from_dicts(cached_data.val)]
    ELSE [tag |-> "miss", val |-> <<>>]

get_or_cache_useflags_invalidating(force_refresh) ==
    LET chk == useflags_cache_check(force_refresh) IN
    \/ /\ chk.tag = "hit"
       /\ last' = Called("get_or_cache_useflags", CACHE_KEY_USEFLAGS, force_refresh,
                         0, "return", chk.val)
       /\ UNCHANGED <<data_file, meta_file, written>>
    \/ /\ chk.tag = "raise"
       /\ last' = Called("get_or_cache_useflags", CACHE_KEY_USEFLAGS, force_refresh,
                         0, "raise", <<>>)
       /\ UNCHANGED <<data_file, meta_file, written>>
    \/ /\ chk.tag = "miss"
       /\ \E f \in get_all_useflags_outcomes, descriptions \in useflag_descriptions :
            IF f.tag = "raise"
            THEN /\ last' = Called("get_or_cache_useflags", CACHE_KEY_USEFLAGS,
                                   force_refresh, 1, "raise", <<>>)
                 /\ delete(CACHE_KEY_USEFLAGS)
            ELSE LET useflags == build_useflags(f.val, descriptions) IN
                 /\ set(CACHE_KEY_USEFLAGS, useflags_to_dicts(useflags))
                 /\ last' = Called("get_or_cache_useflags", CACHE_KEY_USEFLAGS,
                                   force_refresh, 1, "return", useflags)

get_or_cache_useflags(force_refresh) ==
    LET chk == useflags_cache_check(force_refresh) IN
    \/ /\ chk.tag = "hit"
       /\ last' = Called("get_or_cache_useflags", CACHE_KEY_USEFLAGS, force_refresh,
                         0, "return", chk.val)
       /\ UNCHANGED <<data_file, meta_file, written>>
    \/ /\ chk.tag = "raise"
       /\ last' = Called("get_or_cache_useflags", CACHE_KEY_USEFLAGS, force_refresh,
                         0, "raise", <<>>)
       /\ UNCHANGED <<data_file, meta_file, written>>
    \/ /\ chk.tag = "miss"
       /\ \E f \in get_all_useflags_outcomes, descriptions \in useflag_descriptions :
            IF f.tag = "raise"
            THEN /\ last' = Called("get_or_cache_useflags", CACHE_KEY_USEFLAGS,
                                   force_refresh, 1, "raise", <<>>)
                 /\ UNCHANGED <<data_file, meta_file, written>>
            ELSE LET useflags == build_useflags(f.val, descriptions) IN
                 /\ set(CACHE_KEY_USEFLAGS, useflags_to_dicts(useflags))
                 /\ last' = Called("get_or_cache_useflags", CACHE_KEY_USEFLAGS,
                                   force_refresh, 1, "return", useflags)

clear_cache ==
    /\ last' = [NoCall EXCEPT !.op = "clear_cache", !.key = CACHE_KEY,
                              !.pre = EntryFacts(CACHE_KEY), !.outcome = "return",
                              !.ret = IF delete_result(CACHE_KEY) THEN 1 ELSE 0]
    /\ delete(CACHE_KEY)

clear_useflags_cache ==
    /\ last' = [NoCall EXCEPT !.op = "clear_useflags_cache", !.key = CACHE_KEY_USEFLAGS,
                              !.pre = EntryFacts(CACHE_KEY_USEFLAGS),
                              !.outcome = "return",
                              !.ret = IF delete_result(CACHE_KEY_USEFLAGS) THEN 1 ELSE 0]
    /\ delete(CACHE_KEY_USEFLAGS)

\* ------------------------------------------- CacheManager, step by step
\* Thread 0 is the UI thread; the others are worker threads.
MainThread == 0

Workers == 1..MaxThreads

Threads == {MainThread} \cup Workers

\* A thread inside no CacheManager call.  Inside one: op, pc (the file
\* operation it does next), key and data (the arguments), fd (the file it
\* has open is still the one the path names), todo (the keys a glob listed
\* and the loop has yet to unlink), ret (the value to return).
Idle ==
    [op |-> "idle", pc |-> "idle", key |-> CACHE_KEY, data |-> <<>>, fd |-> FALSE,
     todo |-> {}, ret |-> 0]

\* Thread u is inside a call that works on the files of key k.
InProgress(u, k) ==
    /\ threads[u].op # "idle"
    /\ threads[u].op = "clear" \/ threads[u].key = k

\* conc[k]: by (the thread whose set wrote the payload now on disk, if it
\* did so in the call it is still in or has last made), paired (the
\* timestamp on disk was written by the very set call that wrote the
\* payload on disk), raced (a call on k was entered while another was in
\* progress), ops (the operations called on k so far).
NoHistory == [by |-> {}, paired |-> FALSE, raced |-> FALSE, ops |-> {}]

\* Thread t enters op(key, data).
call(t, op, pc, key, data) ==
    /\ threads[t].op = "idle"
    /\ threads' = [threads EXCEPT ![t] =
                      [Idle EXCEPT !.op = op, !.pc = pc, !.key = key, !.data = data]]
    /\ conc' = [k \in Keys |->
                  IF op = "clear" \/ k = key
                  THEN [conc[k] EXCEPT
                          !.raced = @ \/ \E u \in Threads \ {t} : InProgress(u, k),
                          !.ops = @ \cup {op}]
                  ELSE conc[k]]

\* open(path, "w") / open(path, "wb"): the file is created or cut to nothing.
open_w(file) == File(<<>>)

\* f.write(b) on a file just opened for writing, then close: b goes to
\* offset 0 of the file as it is now; what lies beyond b stays.
write(file, b) == File(b \o SubSeq(file.bytes, Len(b) + 1, Len(file.bytes)))

\* path.unlink(): the name is gone; a thread that has the file open keeps
\* writing to a file no path names.
unlinked(pc, k) ==
    [u \in Threads |->
        IF threads[u].op = "set" /\ threads[u].key = k /\ threads[u].pc = pc
        THEN [threads[u] EXCEPT !.fd = FALSE]
        ELSE threads[u]]

returned(t, outcome, ret) ==
    [NoCall EXCEPT !.op = threads[t].op, !.key = threads[t].key,
                   !.pre = EntryFacts(threads[t].key), !.outcome = outcome,
                   !.ret = ret]

\* set, line 47: open(cache_path, "wb")
SetOpenPayload(t) ==
    LET me == threads[t] IN
    /\ me.op = "set" /\ me.pc = "open_payload"
    /\ data_file' = [data_file EXCEPT ![me.key] = open_w(@)]
    /\ threads' = [threads EXCEPT ![t].pc = "write_payload", ![t].fd = TRUE]
    /\ conc' = [conc EXCEPT ![me.key].by = {}, ![me.key].paired = FALSE]
    /\ UNCHANGED <<meta_file, written, last>>

\* set, line 48: f.write(packed_data), and the close
SetWritePayload(t) ==
    LET me == threads[t] IN
    /\ me.op = "set" /\ me.pc = "write_payload"
    /\ threads' = [threads EXCEPT ![t].pc = "open_meta", ![t].fd = FALSE]
    /\ IF me.fd
       THEN /\ data_file' = [data_file EXCEPT ![me.key] = write(@, packb(me.data))]
            /\ written' = [written EXCEPT ![me.key] =
                              [what |-> "set", at |-> now, data |-> me.data,
                               damage |-> "none"]]
            /\ conc' = [conc EXCEPT ![me.key].by = {t}, ![me.key].paired = FALSE]
       ELSE UNCHANGED <<data_file, written, conc>>
    /\ UNCHANGED <<meta_file, last>>

\* set, line 51: open(meta_path, "w")
SetOpenMeta(t) ==
    LET me == threads[t] IN
    /\ me.op = "set" /\ me.pc = "open_meta"
    /\ meta_file' = [meta_file EXCEPT ![me.key] = open_w(@)]
    /\ threads' = [threads EXCEPT ![t].pc = "write_meta", ![t].fd = TRUE]
    /\ conc' = [conc EXCEPT ![me.key].paired = FALSE]
    /\ UNCHANGED <<data_file, written, last>>

\* set, line 52: f.write(str(datetime.now().timestamp())), the close, and
\* the return
SetWriteMeta(t) ==
    LET me == threads[t] IN
    /\ me.op = "set" /\ me.pc = "write_meta"
    /\ threads' = [threads EXCEPT ![t] = Idle]
    /\ last' = returned(t, "return", 0)
    /\ IF me.fd
       THEN /\ meta_file' = [meta_file EXCEPT ![me.key] = write(@, timestamp_str(now))]
            /\ conc' = [conc EXCEPT ![me.key].paired = (t \in conc[me.key].by)]
       ELSE UNCHANGED <<meta_file, conc>>
    /\ UNCHANGED <<data_file, written>>

\* delete, line 146: cache_path.exists()
DeleteCheckPayload(t) ==
    LET me == threads[t] IN
    /\ me.op = "delete" /\ me.pc = "check_payload"
    /\ threads' = [threads EXCEPT ![t].pc =
                      IF data_file[me.key].exists THEN "unlink_payload"
                      ELSE "check_meta"]
    /\ UNCHANGED <<data_file, meta_file, written, conc, last>>

\* delete, lines 147-148: cache_path.unlink() (FileNotFoundError when the
\* file has gone since the check), deleted = True
DeleteUnlinkPayload(t) ==
    LET me == threads[t] IN
    /\ me.op = "delete" /\ me.pc = "unlink_payload"
    /\ IF data_file[me.key].exists
       THEN /\ data_file' = [data_file EXCEPT ![me.key] = NoFile]
            /\ written' = [written EXCEPT ![me.key] =
                              [what |-> "removed", at |-> now, data |-> <<>>,
                               damage |-> "none"]]
            /\ conc' = [conc EXCEPT ![me.key].by = {}, ![me.key].paired = FALSE]
            /\ threads' = [unlinked("write_payload", me.key) EXCEPT
                              ![t].pc = "check_meta", ![t].ret = 1]
            /\ UNCHANGED last
       ELSE /\ threads' = [threads EXCEPT ![t] = Idle]
            /\ last' = returned(t, "raise", 0)
            /\ UNCHANGED <<data_file, written, conc>>
    /\ UNCHANGED meta_file

delete_keeping_timestamp(t) ==
    LET me == threads[t] IN
    /\ me.op = "delete" /\ me.pc = "check_meta"
    /\ threads' = [threads EXCEPT ![t] = Idle]
    /\ last' = returned(t, "return", me.ret)
    /\ UNCHANGED <<data_file, meta_file, written, conc>>

\* delete, lines 150 and 153: meta_path.exists(); return deleted
DeleteCheckMeta(t) ==
    LET me == threads[t] IN
    /\ me.op = "delete" /\ me.pc = "check_meta"
    /\ IF meta_file[me.key].exists
       THEN /\ threads' = [threads EXCEPT ![t].pc = "unlink_meta"]
            /\ UNCHANGED last
       ELSE /\ threads' = [threads EXCEPT ![t] = Idle]
            /\ last' = returned(t, "return", me.ret)
    /\ UNCHANGED <<data_file, meta_file, written, conc>>

\* delete, lines 151 and 153: meta_path.unlink(); return deleted
DeleteUnlinkMeta(t) ==
    LET me == threads[t] IN
    /\ me.op = "delete" /\ me.pc = "unlink_meta"
    /\ IF meta_file[me.key].exists
       THEN /\ meta_file' = [meta_file EXCEPT ![me.key] = NoFile]
            /\ conc' = [conc EXCEPT ![me.key].paired = FALSE]
            /\ threads' = [unlinked("write_meta", me.key) EXCEPT ![t] = Idle]
            /\ last' = returned(t, "return", me.ret)
       ELSE /\ threads' = [threads EXCEPT ![t] = Idle]
            /\ last' = returned(t, "raise", 0)
            /\ UNCHANGED <<meta_file, conc>>
    /\ UNCHANGED <<data_file, written>>

\* clear, line 164: self.cache_dir.glob("*.msgpack") lists the directory
ClearGlobPayloads(t) ==
    LET me == threads[t]
        listed == {k \in Keys : data_file[k].exists}
    IN  /\ me.op = "clear" /\ me.pc = "glob_payloads"
        /\ threads' = [threads EXCEPT
                          ![t].todo = listed,
                          ![t].pc = IF listed = {} THEN "glob_metas"
                                    ELSE "unlink_payloads"]
        /\ UNCHANGED <<data_file, meta_file, written, conc, last>>

\* clear, lines 165-166: path.unlink(); count += 1
ClearUnlinkPayload(t) ==
    LET me == threads[t] IN
    /\ me.op = "clear" /\ me.pc = "unlink_payloads"
    /\ \E k \in me.todo :
         IF data_file[k].exists
         THEN /\ data_file' = [data_file EXCEPT ![k] = NoFile]
              /\ written' = [written EXCEPT ![k] =
                                [what |-> "removed", at |-> now, data |-> <<>>,
                                 damage |-> "none"]]
              /\ conc' = [conc EXCEPT ![k].by = {}, ![k].paired = FALSE]
              /\ threads' = [unlinked("write_payload", k) EXCEPT
                                ![t].todo = me.todo \ {k},
                                ![t].ret = me.ret + 1,
                                ![t].pc = IF me.todo = {k} THEN "glob_metas"
                                          ELSE "unlink_payloads"]
              /\ UNCHANGED last
         ELSE /\ threads' = [threads EXCEPT ![t] = Idle]
              /\ last' = returned(t, "raise", 0)
              /\ UNCHANGED <<data_file, written, conc>>
    /\ UNCHANGED meta_file

\* clear, lines 169 and 172: self.cache_dir.glob("*.meta"); return count
ClearGlobMetas(t) ==
    LET me == threads[t]
        listed == {k \in Keys : meta_file[k].exists}
    IN  /\ me.op = "clear" /\ me.pc = "glob_metas"
        /\ IF listed = {}
           THEN /\ threads' = [threads EXCEPT ![t] = Idle]
                /\ last' = returned(t, "return", me.ret)
           ELSE /\ threads' = [threads EXCEPT ![t].todo = listed,
                                              ![t].pc = "unlink_metas"]
                /\ UNCHANGED last
        /\ UNCHANGED <<data_file, meta_file, written, conc>>

\* clear, lines 170 and 172: path.unlink(); return count
ClearUnlinkMeta(t) ==
    LET me == threads[t] IN
    /\ me.op = "clear" /\ me.pc = "unlink_metas"
    /\ \E k \in me.todo :
         IF meta_file[k].exists
         THEN /\ meta_file' = [meta_file EXCEPT ![k] = NoFile]
              /\ conc' = [conc EXCEPT ![k].paired = FALSE]
              /\ IF me.todo = {k}
                 THEN /\ threads' = [unlinked("write_meta", k) EXCEPT ![t] = Idle]
                      /\ last' = returned(t, "return", me.ret)
                 ELSE /\ threads' = [unlinked("write_meta", k) EXCEPT
                                        ![t].todo = me.todo \ {k}]
                      /\ UNCHANGED last
         ELSE /\ threads' = [threads EXCEPT ![t] = Idle]
              /\ last' = returned(t, "raise", 0)
              /\ UNCHANGED <<meta_file, conc>>
    /\ UNCHANGED <<data_file, written>>

\* ------------------------------------------------ fetch_extra, step by step
\* os.cpu_count() on the machines considered.
CpuCounts == {1, 6}

max(a, b) == IF a >= b THEN a ELSE b

min(a, b) == IF a <= b THEN a ELSE b

\* max_workers of the pool in _populate_package_counts.
pool_max_workers(cpu_count) == max(2, min(cpu_count \div 2, 8))

\* What get_package_count returns when it returns.
QueryCounts == {0, 2}

_get_overlay_package_count_zero_on_failure(raises, count) ==
    IF raises THEN 0 ELSE count

\* _get_overlay_package_count: the count of the overlay's query, -1 when the
\* query raises.
_get_overlay_package_count(raises, count) ==
    IF raises THEN FAILED_PACKAGE_COUNT ELSE count

\* No fetch_extra call in progress.  In progress: pc, overlays (the list
\* being filled), counting (package counting was enabled when the call read
\* the configuration), raises / counts (what each overlay's count query does
\* in this call), future (each task: "pending", "running", "done",
\* "collected"), result (what each finished task returned), cpu_count, error.
NoEnrich ==
    [pc |-> "idle", overlays |-> <<>>, counting |-> FALSE, raises |-> {},
     counts |-> <<>>, future |-> <<>>, result |-> <<>>, cpu_count |-> 1,
     error |-> "none"]

fetch_extra_call_always_counting ==
    /\ enrich.pc = "idle"
    /\ \/ enrich' = [NoEnrich EXCEPT !.pc = "raised", !.error = "fetch"]
       \/ \E n \in 0..MaxTasks, cpu_count \in CpuCounts :
          \E raises \in SUBSET (1..n), counts \in [1..n -> QueryCounts] :
            enrich' = [NoEnrich EXCEPT
                         !.pc = "pool",
                         !.overlays = [i \in 1..n |->
                             [name |-> i,
                              installed |-> IF i \in repos THEN PyTrue ELSE PyFalse,
                              package_count |-> PyNone]],
                         !.counting = TRUE,
                         !.raises = raises, !.counts = counts,
                         !.future = [i \in 1..n |-> "pending"],
                         !.result = [i \in 1..n |-> PyNone],
                         !.cpu_count = cpu_count]
    /\ UNCHANGED <<data_file, meta_file, now, config, repos, tab, catalog, eix, priv, last, written,
                   threads, conc, ui>>

\* fetch_extra up to the submission of the count tasks: fetch (which may
\* raise), installed, and then the skipped counts or the pool.
fetch_extra_call ==
    /\ enrich.pc = "idle"
    /\ \/ enrich' = [NoEnrich EXCEPT !.pc = "raised", !.error = "fetch"]
       \/ \E n \in 0..MaxTasks, cpu_count \in CpuCounts :
          \E raises \in SUBSET (1..n), counts \in [1..n -> QueryCounts] :
            LET overlays == [i \in 1..n |->
                               [name |-> i,
                                installed |-> IF i \in repos THEN PyTrue ELSE PyFalse,
                                package_count |-> PyNone]]
            IN  IF config.skip_package_counting
                THEN enrich' = [NoEnrich EXCEPT
                                  !.pc = "returned",
                                  !.overlays = [i \in 1..n |->
                                      [overlays[i] EXCEPT
                                          !.package_count = SKIPPED_PACKAGE_COUNT]]]
                ELSE enrich' = [NoEnrich EXCEPT
                                  !.pc = "pool", !.overlays = overlays,
                                  !.counting = TRUE,
                                  !.raises = raises, !.counts = counts,
                                  !.future = [i \in 1..n |-> "pending"],
                                  !.result = [i \in 1..n |-> PyNone],
                                  !.cpu_count = cpu_count]
    /\ UNCHANGED <<data_file, meta_file, now, config, repos, tab, catalog, eix, priv, last, written,
                   threads, conc, ui>>

pool_task_start_unbounded(i) ==
    /\ enrich.pc = "pool"
    /\ enrich.future[i] = "pending"
    /\ enrich' = [enrich EXCEPT !.future[i] = "running"]
    /\ UNCHANGED <<data_file, meta_file, now, config, repos, tab, catalog, eix, priv, last, written,
                   threads, conc, ui>>

\* A pool thread takes a submitted task.
pool_task_start(i) ==
    /\ enrich.pc = "pool"
    /\ enrich.future[i] = "pending"
    /\ Cardinality({j \in 1..Len(enrich.future) : enrich.future[j] = "running"})
         < pool_max_workers(enrich.cpu_count)
    /\ enrich' = [enrich EXCEPT !.future[i] = "running"]
    /\ UNCHANGED <<data_file, meta_file, now, config, repos, tab, catalog, eix, priv, last, written,
                   threads, conc, ui>>

\* The task returns (overlay, count).
pool_task_finish(i) ==
    /\ enrich.pc = "pool"
    /\ enrich.future[i] = "running"
    /\ enrich' = [enrich EXCEPT
                    !.future[i] = "done",
                    !.result[i] = _get_overlay_package_count(i \in enrich.raises,
                                                             enrich.counts[i])]
    /\ UNCHANGED <<data_file, meta_file, now, config, repos, tab, catalog, eix, priv, last, written,
                   threads, conc, ui>>

pool_collect_in_completion_order(i) ==
    /\ enrich.pc = "pool"
    /\ enrich.future[i] = "done"
    /\ LET k == 1 + Cardinality({j \in 1..Len(enrich.future) :
                                    enrich.future[j] = "collected"})
       IN  enrich' = [enrich EXCEPT
                        !.future[i] = "collected",
                        !.overlays[k].package_count = enrich.result[i]]
    /\ UNCHANGED <<data_file, meta_file, now, config, repos, tab, catalog, eix, priv, last, written,
                   threads, conc, ui>>

\* as_completed yields a finished future: overlay.package_count = count.
pool_collect(i) ==
    /\ enrich.pc = "pool"
    /\ enrich.future[i] = "done"
    /\ enrich' = [enrich EXCEPT
                    !.future[i] = "collected",
                    !.overlays[i].package_count = enrich.result[i]]
    /\ UNCHANGED <<data_file, meta_file, now, config, repos, tab, catalog, eix, priv, last, written,
                   threads, conc, ui>>

fetch_extra_return_without_join ==
    /\ enrich.pc = "pool"
    /\ enrich' = [enrich EXCEPT !.pc = "returned"]
    /\ UNCHANGED <<data_file, meta_file, now, config, repos, tab, catalog, eix, priv, last, written,
                   threads, conc, ui>>

\* Every future has been collected: the pool shuts down and fetch_extra
\* returns overlays.
fetch_extra_return ==
    /\ enrich.pc = "pool"
    /\ \A i \in 1..Len(enrich.future) : enrich.future[i] = "collected"
    /\ enrich' = [enrich EXCEPT !.pc = "returned"]
    /\ UNCHANGED <<data_file, meta_file, now, config, repos, tab, catalog, eix, priv, last, written,
                   threads, conc, ui>>

\* The caller has the result (or the exception).
fetch_extra_done ==
    /\ enrich.pc \in {"returned", "raised"}
    /\ enrich' = NoEnrich
    /\ UNCHANGED <<data_file, meta_file, now, config, repos, tab, catalog, eix, priv, last, written,
                   threads, conc, ui>>

\* --------------------------------------------------- fetch: the catalog
\* A catalog document is the sequence of its <repo> elements.  An element:
\* name (the text of its <name>; texts are numbers, 0 the empty text of a
\* missing or empty child), owner (its <owner> children, each with name and
\* email), source (its <source> children, each with the type attribute and
\* the text), quality and status (the attributes).  An attribute is <<>>
\* when absent and <<value>> when present.  Description, homepage and feeds
\* never make fetch drop an entry or raise.
OverlayQuality == {"core", "experimental"}

OverlayStatus == {"official", "unofficial"}

SourceType == {"git", "mercurial", "rsync", "cvs"}

\* Element.get(name, default)
attr_get(attr, default) == IF attr = <<>> THEN default ELSE attr[1]

\* [tag, val]: "ok" with the parsed value, "none" for None, "ValueError".
_parse_owner(repo_elem) ==
    LET owner_elems == repo_elem.owner IN
    IF owner_elems = <<>> THEN [tag |-> "none", val |-> <<>>]
    ELSE LET owner_elem == owner_elems[1] IN
         IF owner_elem.name = 0 \/ owner_elem.email = 0
         THEN [tag |-> "none", val |-> <<>>]
         ELSE [tag |-> "ok",
               val |-> [name |-> owner_elem.name, email |-> owner_elem.email]]

\* The loop over source_elems: SourceType(source_type_str) raises ValueError
\* for a string that is no member's value and for None.
RECURSIVE _parse_sources(_)
_parse_sources(source_elems) ==
    IF source_elems = <<>> THEN [tag |-> "ok", val |-> <<>>]
    ELSE LET source_elem == Head(source_elems)
             source_type_str == source_elem.type
             url == source_elem.text
         IN  IF url = 0 THEN _parse_sources(Tail(source_elems))
             ELSE IF source_type_str = <<>> \/ source_type_str[1] \notin SourceType
             THEN [tag |-> "ValueError", val |-> <<>>]
             ELSE LET rest == _parse_sources(Tail(source_elems)) IN
                  IF rest.tag # "ok" THEN rest
                  ELSE [tag |-> "ok",
                        val |-> <<[source_type |-> source_type_str[1], url |-> url]>>
                                  \o rest.val]

_parse_overlay(repo_elem) ==
    IF repo_elem.name = 0 THEN [tag |-> "none", val |-> <<>>]
    ELSE LET owner == _parse_owner(repo_elem) IN
    IF owner.tag = "none" THEN [tag |-> "none", val |-> <<>>]
    ELSE LET sources == _parse_sources(repo_elem.source) IN
    IF sources.tag = "ValueError" THEN [tag |-> "ValueError", val |-> <<>>]
    ELSE LET quality_str == attr_get(repo_elem.quality, "experimental")
             status_str == attr_get(repo_elem.status, "unofficial")
         IN  IF quality_str \notin OverlayQuality \/ status_str \notin OverlayStatus
             THEN [tag |-> "none", val |-> <<>>]
             ELSE [tag |-> "ok",
                   val |-> [name |-> repo_elem.name, owner |-> owner.val,
                            sources |-> sources.val, quality |-> quality_str,
                            status |-> status_str, installed |-> PyNone,
                            package_count |-> PyNone]]

\* fetch's loop over repo_elems: the overlays, or the ValueError of the
\* first element whose parsing raises.
RECURSIVE parse_repos(_)
parse_repos(repo_elems) ==
    IF repo_elems = <<>> THEN [tag |-> "ok", val |-> <<>>]
    ELSE LET overlay == _parse_overlay(Head(repo_elems)) IN
         IF overlay.tag = "ValueError" THEN [tag |-> "ValueError", val |-> <<>>]
         ELSE LET rest == parse_repos(Tail(repo_elems)) IN
              IF rest.tag # "ok" THEN rest
              ELSE IF overlay.tag = "none" THEN rest
              ELSE [tag |-> "ok", val |-> <<overlay.val>> \o rest.val]

\* The <source> children of the documents considered: none, one git source,
\* a git source followed by one of a kind that is no SourceType, a source
\* without type attribute, a source of an unknown kind with no text, two
\* sources of known kinds.
SourceElems ==
    LET source(type, text) == [type |-> type, text |-> text] IN
    { <<>>,
      <<source(<<"git">>, 1)>>,
      <<source(<<"git">>, 1), source(<<"svn">>, 2)>>,
      <<source(<<>>, 1)>>,
      <<source(<<"svn">>, 0)>>,
      <<source(<<"mercurial">>, 2), source(<<"git">>, 1)>> }

\* The <repo> elements of the documents considered: complete ones under
\* each name and with each list of sources, and ones lacking the name, the
\* owner, the owner's name or email, with an unknown quality or status, or
\* without the two attributes.
RepoElems ==
    LET repo(name, owner, source, quality, status) ==
            [name |-> name, owner |-> owner, source |-> source,
             quality |-> quality, status |-> status]
        owner == <<[name |-> 1, email |-> 1]>>
        git == <<[type |-> <<"git">>, text |-> 1]>>
        svn == <<[type |-> <<"svn">>, text |-> 2]>>
    IN  { repo(name, owner, source, <<"core">>, <<"official">>) :
            name \in 1..MaxOverlays, source \in SourceElems }
        \cup
        { repo(0, owner, git, <<"core">>, <<"official">>),
          repo(0, owner, svn, <<"core">>, <<"official">>),
          repo(1, <<>>, git, <<"core">>, <<"official">>),
          repo(1, <<[name |-> 0, email |-> 1]>>, git, <<"core">>, <<"official">>),
          repo(1, <<[name |-> 1, email |-> 0]>>, git, <<"core">>, <<"official">>),
          repo(1, owner, git, <<"bogus">>, <<"official">>),
          repo(1, owner, git, <<"core">>, <<"bogus">>),
          repo(1, owner, git, <<>>, <<>>) }

\* The documents the URL can serve: up to MaxOverlays <repo> elements.
Documents == SeqsUpTo(RepoElems, MaxOverlays)

\* No fetch call in progress.
NoFetch == [pc |-> "idle", document |-> <<>>, overlays |-> <<>>, error |-> "none"]

\* fetch(): urlopen raises, or the document is parsed.
fetch_call ==
    /\ catalog.pc = "idle"
    /\ \/ catalog' = [NoFetch EXCEPT !.pc = "raised", !.error = "URLError"]
       \/ \E document \in Documents :
            LET overlays == parse_repos(document) IN
            catalog' = IF overlays.tag = "ok"
                       THEN [pc |-> "returned", document |-> document,
                             overlays |-> overlays.val, error |-> "none"]
                       ELSE [pc |-> "raised", document |-> document,
                             overlays |-> <<>>, error |-> overlays.tag]
    /\ UNCHANGED <<data_file, meta_file, now, config, repos, tab, eix, priv, last, written,
                   threads, conc, ui, enrich>>

\* The caller has the list (or the exception).
fetch_done ==
    /\ catalog.pc \in {"returned", "raised"}
    /\ catalog' = NoFetch
    /\ UNCHANGED <<data_file, meta_file, now, config, repos, tab, eix, priv, last, written,
                   threads, conc, ui, enrich>>

\* ------------------------------------------------ eix: get_all_useflags
\* A line of eix's output is a sequence of characters.  The lines
\* considered: the empty one, names with modifiers at the start, at the end,
\* at both ends and inside, a name that is a digit, and lines without any
\* alphanumeric character.
RawFlagLines ==
    { <<>>, <<"a">>, <<"+", "a">>, <<"a", "*">>, <<"!", "?", "a", "+">>,
      <<"a", "+", "b">>, <<"b">>, <<"1">>, <<"+", "-", "?">>, <<"*", "!">>, <<"-">> }

cleaned_flag_leading_only(flag) ==
    LET RECURSIVE lstrip(_)
        lstrip(f) == IF f # <<>> /\ Head(f) \in {"+", "!", "?", "*"}
                     THEN lstrip(Tail(f)) ELSE f
    IN  lstrip(flag)

\* The two while loops: leading, then trailing characters of '+!?*'.
RECURSIVE cleaned_flag(_)
cleaned_flag(flag) ==
    IF flag # <<>> /\ Head(flag) \in {"+", "!", "?", "*"}
    THEN cleaned_flag(Tail(flag))
    ELSE IF flag # <<>> /\ flag[Len(flag)] \in {"+", "!", "?", "*"}
    THEN cleaned_flag(SubSeq(flag, 1, Len(flag) - 1))
    ELSE flag

\* The loop over raw_useflags from its k-th line on, cleaned_useflags being
\* the names kept so far (seen_flags is the set of its elements).
RECURSIVE get_all_useflags(_, _, _)
get_all_useflags(raw_useflags, k, cleaned_useflags) ==
    IF k > Len(raw_useflags) THEN cleaned_useflags
    ELSE LET cleaned == cleaned_flag(raw_useflags[k])
             isalnum(c) == c \in {"a", "b", "1"}
             seen_flags == {cleaned_useflags[i] : i \in 1..Len(cleaned_useflags)}
         IN  IF cleaned = <<>> THEN get_all_useflags(raw_useflags, k + 1, cleaned_useflags)
             ELSE IF ~\E i \in 1..Len(cleaned) : isalnum(cleaned[i])
             THEN get_all_useflags(raw_useflags, k + 1, cleaned_useflags)
             ELSE IF cleaned \notin seen_flags
             THEN get_all_useflags(raw_useflags, k + 1, Append(cleaned_useflags, cleaned))
             ELSE get_all_useflags(raw_useflags, k + 1, cleaned_useflags)

\* The call of get_all_useflags, on an output of up to MaxFlags + 1 lines.
get_all_useflags_call ==
    /\ ~eix.called
    /\ \E raw_useflags \in SeqsUpTo(RawFlagLines, MaxFlags + 1) :
         eix' = [called |-> TRUE, raw_useflags |-> raw_useflags,
                 ret |-> get_all_useflags(raw_useflags, 1, <<>>)]
    /\ UNCHANGED <<data_file, meta_file, now, config, repos, tab, last, written,
                   threads, conc, ui, enrich, catalog, priv>>

\* ------------------------------------------------------------- privilege
\* An optional value is <<>> for None and <<v>> for the value v.  `which` is
\* the set of commands shutil.which finds.
\* BACKENDS.items(), in the order of the dict.
BACKENDS ==
    <<[backend |-> "pkexec", cmd |-> "pkexec"],
      [backend |-> "sudo", cmd |-> "sudo"],
      [backend |-> "doas", cmd |-> "doas"]>>

detect_backend_last_found(which) ==
    LET found == {i \in 1..Len(BACKENDS) : BACKENDS[i].cmd \in which} IN
    IF found = {} THEN <<>>
    ELSE <<BACKENDS[CHOOSE i \in found : \A j \in found : j <= i].backend>>

\* detect_backend: the first item of BACKENDS whose command is found.
detect_backend(which) ==
    LET found == {i \in 1..Len(BACKENDS) : BACKENDS[i].cmd \in which} IN
    IF found = {} THEN <<>>
    ELSE <<BACKENDS[CHOOSE i \in found : \A j \in found : i <= j].backend>>

get_configured_backend_case_sensitive(privilege_backend, which) ==
    LET backend_str == privilege_backend IN
    IF backend_str = "auto" THEN detect_backend(which)
    ELSE IF backend_str = "none" THEN <<>>
    ELSE IF \E i \in 1..Len(BACKENDS) : BACKENDS[i].backend = backend_str
    THEN <<backend_str>>
    ELSE detect_backend(which)

\* get_configured_backend, config.privilege_backend being one of the
\* strings considered (lower is str.lower on them).
get_configured_backend(privilege_backend, which) ==
    LET lower(str) == CASE str = "AUTO" -> "auto"
                        [] str = "None" -> "none"
                        [] str = "Sudo" -> "sudo"
                        [] OTHER -> str
        backend_str == lower(privilege_backend)
    IN  IF backend_str = "auto" THEN detect_backend(which)
        ELSE IF backend_str = "none" THEN <<>>
        ELSE IF \E i \in 1..Len(BACKENDS) : BACKENDS[i].backend = backend_str
        THEN <<backend_str>>
        ELSE detect_backend(which)

run_privileged_always_in_terminal(cmd, backend, use_terminal, privilege_backend, terminal, which) ==
    LET backend1 == IF backend = <<>>
                    THEN get_configured_backend(privilege_backend, which)
                    ELSE backend
        in_backends(b) == \E i \in 1..Len(BACKENDS) : BACKENDS[i].backend = b
        token(b) == (CHOOSE item \in {BACKENDS[i] : i \in 1..Len(BACKENDS)} :
                         item.backend = b).cmd
        full_cmd == IF backend1 # <<>> /\ backend1[1] # "" /\ in_backends(backend1[1])
                    THEN <<token(backend1[1])>> \o cmd
                    ELSE cmd
    IN  terminal \o full_cmd

\* run_privileged: the full_cmd handed to subprocess.run.
run_privileged(cmd, backend, use_terminal, privilege_backend, terminal, which) ==
    LET backend1 == IF backend = <<>>
                    THEN get_configured_backend(privilege_backend, which)
                    ELSE backend
        terminal_cmd == terminal
        use_terminal1 == IF use_terminal = <<>> THEN terminal_cmd # <<>>
                         ELSE use_terminal[1]
        in_backends(b) == \E i \in 1..Len(BACKENDS) : BACKENDS[i].backend = b
        token(b) == (CHOOSE item \in {BACKENDS[i] : i \in 1..Len(BACKENDS)} :
                         item.backend = b).cmd
        full_cmd == IF backend1 # <<>> /\ backend1[1] # "" /\ in_backends(backend1[1])
                    THEN <<token(backend1[1])>> \o cmd
                    ELSE cmd
    IN  IF use_terminal1 /\ terminal_cmd # <<>> THEN terminal_cmd \o full_cmd
        ELSE full_cmd

\* The calls into privilege.py, one per run, on a system where any of the
\* three commands may be installed.
detect_backend_call ==
    /\ priv.op = "none"
    /\ \E which \in SUBSET {"pkexec", "sudo", "doas"} :
         priv' = [priv EXCEPT !.op = "detect_backend", !.which = which,
                              !.ret = detect_backend(which)]
    /\ UNCHANGED <<data_file, meta_file, now, config, repos, tab, last, written,
                   threads, conc, ui, enrich, catalog, eix>>

get_configured_backend_call ==
    /\ priv.op = "none"
    /\ \E which \in SUBSET {"pkexec", "sudo", "doas"},
          privilege_backend \in {"auto", "AUTO", "none", "None", "pkexec", "sudo",
                                 "Sudo", "doas", "su", ""} :
         priv' = [priv EXCEPT !.op = "get_configured_backend", !.which = which,
                              !.privilege_backend = privilege_backend,
                              !.ret = get_configured_backend(privilege_backend, which)]
    /\ UNCHANGED <<data_file, meta_file, now, config, repos, tab, last, written,
                   threads, conc, ui, enrich, catalog, eix>>

run_privileged_call ==
    /\ priv.op = "none"
    /\ \E which \in SUBSET {"pkexec", "sudo", "doas"},
          privilege_backend \in {"auto", "AUTO", "none", "None", "pkexec", "sudo",
                                 "Sudo", "doas", "su", ""},
          terminal \in {<<>>, <<"xterm", "-e">>},
          cmd \in {<<"eselect", "repository">>, <<"sudo", "true">>},
          backend \in {<<>>, <<"sudo">>, <<"doas">>, <<"su">>, <<"">>},
          use_terminal \in {<<>>, <<TRUE>>, <<FALSE>>} :
         priv' = [op |-> "run_privileged", which |-> which,
                  privilege_backend |-> privilege_backend, terminal |-> terminal,
                  cmd |-> cmd, backend |-> backend, use_terminal |-> use_terminal,
                  ret |-> run_privileged(cmd, backend, use_terminal,
                                         privilege_backend, terminal, which)]
    /\ UNCHANGED <<data_file, meta_file, now, config, repos, tab, last, written,
                   threads, conc, ui, enrich, catalog, eix>>

\* ------------------------------------------------------ the tabs' workers
\* A worker thread running nothing.  Running: fn (the @work method), stage,
\* cancelled (a later exclusive worker of the same widget was started),
\* result (the records its orchestration call returned; for an action, the
\* overlay it read from selected_overlay), returncode (what enable_and_sync()
\* or remove() gave: "0", "1", or "raise").
FreeWorker ==
    [fn |-> "idle", stage |-> "idle", cancelled |-> FALSE, result |-> <<>>,
     returncode |-> "none"]

\* The app before the tabs are mounted: overlays (OverlaysTab.overlays),
\* populated (the overlays table has been filled), selected (the index of
\* selected_overlay in overlays, 0 for None), use_table (the USE table).
\* fetched_at is history: the hour at which the latest get_or_cache that
\* fetched the catalog returned, <<>> before the first.
NoUi ==
    [mounted |-> FALSE, work |-> [w \in Workers |-> FreeWorker], overlays |-> <<>>,
     populated |-> FALSE, selected |-> 0, use_table |-> "empty",
     fetched_at |-> <<>>]

NothingRunning ==
    /\ threads = [t \in Threads |-> Idle]
    /\ conc = [k \in Keys |-> NoHistory]
    /\ ui = NoUi
    /\ enrich = NoEnrich
    /\ catalog = NoFetch
    /\ eix = [called |-> FALSE, raw_useflags |-> <<>>, ret |-> <<>>]
    /\ priv = [op |-> "none", which |-> {}, privilege_backend |-> "auto",
               terminal |-> <<>>, cmd |-> <<>>, backend |-> <<>>,
               use_terminal |-> <<>>, ret |-> <<>>]

\* The widget a @work method belongs to.
widget(fn) == IF fn = "_perform_search" THEN "UseFlagsTab" ELSE "OverlaysTab"

\* The UI thread is between two event handlers / callbacks.
MainFree == threads[MainThread].op = "idle"

\* @work(exclusive=True, thread=True): the widget's other workers are
\* cancelled, which does not stop their threads, and fn is started in
\* thread w.
spawn(w, fn) ==
    [u \in Workers |->
        IF u = w THEN [FreeWorker EXCEPT !.fn = fn, !.stage = "start"]
        ELSE IF ui.work[u].fn # "idle" /\ widget(ui.work[u].fn) = widget(fn)
        THEN [ui.work[u] EXCEPT !.cancelled = TRUE]
        ELSE ui.work[u]]

\* OverlaysTab.on_mount
on_mount(w) ==
    /\ MainFree /\ ~ui.mounted
    /\ ui.work[w].fn = "idle"
    /\ ui' = [ui EXCEPT !.mounted = TRUE, !.work = spawn(w, "load_overlays")]
    /\ UNCHANGED <<data_file, meta_file, now, config, repos, tab, catalog, eix, priv, last, written,
                   threads, conc, enrich>>

\* on_input_changed with the USE tab active: search_useflags(query), the
\* query long enough or not.
search_useflags(w, long_enough) ==
    /\ MainFree /\ ui.mounted
    /\ IF long_enough
       THEN /\ ui.work[w].fn = "idle"
            /\ ui' = [ui EXCEPT !.work = spawn(w, "_perform_search")]
       ELSE /\ w = 1
            /\ ui.use_table # "empty"
            /\ ui' = [ui EXCEPT !.use_table = "empty"]
    /\ UNCHANGED <<data_file, meta_file, now, config, repos, tab, catalog, eix, priv, last, written,
                   threads, conc, enrich>>

\* on_data_table_row_selected in the overlays table
on_data_table_row_selected(i) ==
    /\ MainFree /\ ui.populated
    /\ i \in 1..Len(ui.overlays)
    /\ ui.selected # i
    /\ ui' = [ui EXCEPT !.selected = i]
    /\ UNCHANGED <<data_file, meta_file, now, config, repos, tab, catalog, eix, priv, last, written,
                   threads, conc, enrich>>

\* A worker is between disabling its button and enabling it again.
button_busy(fn) ==
    \E w \in Workers :
        ui.work[w].fn = fn
        /\ ui.work[w].stage \in {"run", "update", "updating", "failed"}

\* update_button_states: the button is shown and enabled.
button_enabled(fn) ==
    /\ ui.selected # 0
    /\ ui.overlays[ui.selected].installed =
         IF fn = "_action_enable_sync" THEN PyFalse ELSE PyTrue
    /\ ~button_busy(fn)

\* on_button_pressed
on_button_pressed(w, fn) ==
    /\ MainFree
    /\ button_enabled(fn)
    /\ ui.work[w].fn = "idle"
    /\ ui' = [ui EXCEPT !.work = spawn(w, fn)]
    /\ UNCHANGED <<data_file, meta_file, now, config, repos, tab, catalog, eix, priv, last, written,
                   threads, conc, enrich>>

\* The orchestration call of a worker, up to its fetch: the cache check.
worker_cache_check(w) ==
    LET fn == ui.work[w].fn
        chk == IF fn = "load_overlays" THEN overlays_cache_check(FALSE)
               ELSE useflags_cache_check(FALSE)
    IN  /\ fn \in {"load_overlays", "_perform_search"}
        /\ ui.work[w].stage = "start"
        /\ ui' = [ui EXCEPT !.work[w] =
                    IF chk.tag = "hit"
                    THEN [@ EXCEPT !.stage = "got", !.result = chk.val]
                    ELSE IF chk.tag = "miss" THEN [@ EXCEPT !.stage = "fetch"]
                    ELSE [@ EXCEPT !.stage = "failed"]]
        /\ UNCHANGED <<data_file, meta_file, now, config, repos, tab, catalog, eix, priv, last, written,
                       threads, conc, enrich>>

\* What the fetcher of a worker's orchestration call returns here: the
\* catalog of one counted overlay, the list of one USE flag.
worker_fetch_results(fn) ==
    IF fn = "load_overlays"
    THEN {[name |-> 1, installed |-> IF 1 \in repos THEN PyTrue ELSE PyFalse,
           package_count |-> 1]}
    ELSE {[name |-> 1, description |-> PyNone]}

\* The fetch of a worker's orchestration call, and its call of set.
worker_fetch(w) ==
    LET fn == ui.work[w].fn IN
    /\ fn \in {"load_overlays", "_perform_search"}
    /\ ui.work[w].stage = "fetch"
    /\ \/ /\ ui' = [ui EXCEPT !.work[w].stage = "failed"]
          /\ UNCHANGED <<threads, conc>>
       \/ \E r \in worker_fetch_results(fn) :
            /\ ui' = [ui EXCEPT !.work[w].stage = "set", !.work[w].result = <<r>>]
            /\ IF fn = "load_overlays"
               THEN call(w, "set", "open_payload", CACHE_KEY, to_dicts(<<r>>))
               ELSE call(w, "set", "open_payload", CACHE_KEY_USEFLAGS,
                         useflags_to_dicts(<<r>>))
    /\ UNCHANGED <<data_file, meta_file, now, config, repos, tab, catalog, eix, priv, last, written,
                   enrich>>

\* set has returned, and with it the orchestration call.
worker_set_returned(w) ==
    /\ ui.work[w].fn \in {"load_overlays", "_perform_search"}
    /\ ui.work[w].stage = "set"
    /\ threads[w].op = "idle"
    /\ ui' = [ui EXCEPT !.work[w].stage = "got",
                         !.fetched_at = IF ui.work[w].fn = "load_overlays"
                                        THEN <<now>> ELSE @]
    /\ UNCHANGED <<data_file, meta_file, now, config, repos, tab, catalog, eix, priv, last, written,
                   threads, conc, enrich>>

\* load_overlays, lines 137-149: self.overlays = overlays, and the UI thread
\* runs _populate_table and _hide_loading; or the call raised, and it runs
\* notify and _hide_loading.
load_overlays_end(w) ==
    /\ MainFree
    /\ ui.work[w].fn = "load_overlays"
    /\ ui.work[w].stage \in {"got", "failed"}
    /\ ui' = IF ui.work[w].stage = "got"
             THEN [ui EXCEPT !.overlays = ui.work[w].result, !.populated = TRUE,
                             !.selected = 0, !.work[w] = FreeWorker]
             ELSE [ui EXCEPT !.work[w] = FreeWorker]
    /\ UNCHANGED <<data_file, meta_file, now, config, repos, tab, catalog, eix, priv, last, written,
                   threads, conc, enrich>>

\* _perform_search, lines 72-79: the UI thread runs _populate_table (or
\* notify) and _hide_loading.
_perform_search_end(w) ==
    /\ MainFree
    /\ ui.work[w].fn = "_perform_search"
    /\ ui.work[w].stage \in {"got", "failed"}
    /\ ui' = IF ui.work[w].stage = "got"
             THEN [ui EXCEPT !.use_table = "filled", !.work[w] = FreeWorker]
             ELSE [ui EXCEPT !.work[w] = FreeWorker]
    /\ UNCHANGED <<data_file, meta_file, now, config, repos, tab, catalog, eix, priv, last, written,
                   threads, conc, enrich>>

\* The action without the test of the exit code: every outcome of the
\* command is followed by the status update.
action_run_ignoring_returncode(w) ==
    LET fn == ui.work[w].fn IN
    /\ fn \in {"_action_enable_sync", "_action_remove"}
    /\ ui.work[w].stage = "start"
    /\ IF ~button_enabled(fn)
       THEN /\ ui' = [ui EXCEPT !.work[w] = FreeWorker]
            /\ UNCHANGED repos
       ELSE LET overlay == ui.overlays[ui.selected] IN
            \/ /\ ui' = [ui EXCEPT !.work[w].stage = "update",
                                    !.work[w].result = <<overlay>>,
                                    !.work[w].returncode = "0"]
               /\ repos' = IF fn = "_action_enable_sync"
                           THEN repos \cup {overlay.name}
                           ELSE repos \ {overlay.name}
            \/ /\ \E returncode \in {"1", "raise"} :
                    ui' = [ui EXCEPT !.work[w].stage = "update",
                                     !.work[w].result = <<overlay>>,
                                     !.work[w].returncode = returncode]
               /\ UNCHANGED repos
    /\ UNCHANGED <<data_file, meta_file, now, config, tab, catalog, eix, priv, last, written,
                   threads, conc, enrich>>

\* _action_enable_sync / _action_remove in the thread: the checks at the
\* top, the button disabled, overlay = self.selected_overlay, and
\* enable_and_sync() / remove() run: exit code 0, or another exit code, or
\* an exception.
action_run(w) ==
    LET fn == ui.work[w].fn IN
    /\ fn \in {"_action_enable_sync", "_action_remove"}
    /\ ui.work[w].stage = "start"
    /\ IF ~button_enabled(fn)
       THEN /\ ui' = [ui EXCEPT !.work[w] = FreeWorker]
            /\ UNCHANGED repos
       ELSE LET overlay == ui.overlays[ui.selected] IN
            \/ /\ ui' = [ui EXCEPT !.work[w].stage = "update",
                                    !.work[w].result = <<overlay>>,
                                    !.work[w].returncode = "0"]
               /\ repos' = IF fn = "_action_enable_sync"
                           THEN repos \cup {overlay.name}
                           ELSE repos \ {overlay.name}
            \/ /\ \E returncode \in {"1", "raise"} :
                    ui' = [ui EXCEPT !.work[w].stage = "failed",
                                     !.work[w].result = <<overlay>>,
                                     !.work[w].returncode = returncode]
               /\ UNCHANGED repos
    /\ UNCHANGED <<data_file, meta_file, now, config, tab, catalog, eix, priv, last, written,
                   threads, conc, enrich>>

\* _update_overlay_installation_status, run by the UI thread for the
\* worker: the first overlay of self.overlays with the name is marked and
\* self.overlays is set under "overlays_data".
_update_overlay_installation_status(w) ==
    LET installed == IF ui.work[w].fn = "_action_enable_sync" THEN PyTrue
                     ELSE PyFalse
        overlay_name == ui.work[w].result[1].name
        named == {i \in 1..Len(ui.overlays) : ui.overlays[i].name = overlay_name}
        overlays == IF named = {} THEN ui.overlays
                    ELSE [ui.overlays EXCEPT
                            ![CHOOSE i \in named : \A j \in named : i <= j].installed
                                = installed]
    IN  /\ MainFree
        /\ ui.work[w].fn \in {"_action_enable_sync", "_action_remove"}
        /\ ui.work[w].stage = "update"
        /\ ui' = [ui EXCEPT !.overlays = overlays, !.work[w].stage = "updating"]
        /\ call(MainThread, "set", "open_payload", CACHE_KEY, to_dicts(overlays))
        /\ UNCHANGED <<data_file, meta_file, now, config, repos, tab, catalog, eix, priv, last, written,
                       enrich>>

\* The UI thread has finished the callbacks (the status update and
\* _populate_table, or the notification of the failure); the worker enables
\* its button again and ends.
action_end(w) ==
    /\ MainFree
    /\ ui.work[w].fn \in {"_action_enable_sync", "_action_remove"}
    /\ ui.work[w].stage \in {"updating", "failed"}
    /\ ui' = [ui EXCEPT !.work[w] = FreeWorker]
    /\ UNCHANGED <<data_file, meta_file, now, config, repos, tab, catalog, eix, priv, last, written,
                   threads, conc, enrich>>

\* The app is closed with nothing running and started again on the same
\* cache directory: the tabs are constructed anew.
restart ==
    /\ ui.mounted
    /\ \A t \in Threads : threads[t].op = "idle"
    /\ \A w \in Workers : ui.work[w] = FreeWorker
    /\ ui' = [NoUi EXCEPT !.fetched_at = ui.fetched_at]
    /\ UNCHANGED <<data_file, meta_file, now, config, repos, tab, catalog, eix, priv, last, written,
                   threads, conc, enrich>>

\* ------------------------------------------------------------- environment
\* An hour passes.
Tick ==
    /\ now < MaxTime
    /\ now' = now + 1
    /\ last' = NoCall
    /\ UNCHANGED <<data_file, meta_file, config, repos, tab, catalog, eix, priv, written>>
    /\ UNCHANGED <<threads, conc, ui, enrich>>

\* The program is restarted with overlays.skip_package_counting edited in
\* carnage.toml; the cache directory is kept.
reload_config ==
    /\ config' = [config EXCEPT !.skip_package_counting = ~@]
    /\ last' = NoCall
    /\ UNCHANGED <<data_file, meta_file, now, repos, tab, catalog, eix, priv, written>>
    /\ UNCHANGED <<threads, conc, ui, enrich>>

\* ------------------------------------------------------------------- Init
Never == [what |-> "never", at |-> 0, data |-> <<>>, damage |-> "none"]

Absent == [d |-> NoFile, m |-> NoFile, w |-> Never]

\* An entry an earlier run wrote at time 0 and that was damaged since: the
\* payload overwritten with a byte that is no msgpack, or cut to nothing; the
\* timestamp overwritten with a non-number, or lost.
DamagedEntries(data) ==
    LET w(damage) == [what |-> "set", at |-> 0, data |-> data, damage |-> damage] IN
    { [d |-> File(<<193>>), m |-> File(timestamp_str(0)), w |-> w("payload")],
      [d |-> File(<<>>), m |-> File(timestamp_str(0)), w |-> w("payload")],
      [d |-> File(packb(data)), m |-> File(<<10>>), w |-> w("meta")],
      [d |-> File(packb(data)), m |-> NoFile, w |-> w("meta")] }

InitEntries(key) ==
    {Absent} \cup
    DamagedEntries(IF key = CACHE_KEY
                   THEN <<to_dict([name |-> 1, installed |-> PyFalse, package_count |-> 1])>>
                   ELSE <<useflag_to_dict([name |-> 1, description |-> PyNone])>>)

\* Each tab owns one key (overlay_tab.py: "overlays_data", use_tab.py:
\* "useflags_data") and calls only the orchestration function of that key.
TabKey(t) == IF t = "overlays" THEN CACHE_KEY ELSE CACHE_KEY_USEFLAGS

\* The configured max ages (hours): 0 or MaxAge.
Configs ==
    [overlays_cache_max_age : {0, MaxAge}, use_cache_max_age : {0, MaxAge},
     skip_package_counting : BOOLEAN]

\* The cache directory at start holds nothing, or a damaged entry under the
\* key of the tab at work.
Init ==
    /\ tab \in {"overlays", "use"}
    /\ \E e \in InitEntries(TabKey(tab)) :
         /\ data_file = [k \in Keys |-> IF k = TabKey(tab) THEN e.d ELSE NoFile]
         /\ meta_file = [k \in Keys |-> IF k = TabKey(tab) THEN e.m ELSE NoFile]
         /\ written = [k \in Keys |-> IF k = TabKey(tab) THEN e.w ELSE Never]
    /\ now = 0
    /\ config \in Configs
    /\ repos = {1}
    /\ last = NoCall
    /\ NothingRunning

Next ==
    \/ /\ tab = "overlays"
       /\ \E force_refresh \in BOOLEAN : get_or_cache(force_refresh)
       /\ UNCHANGED <<now, config, repos, tab, catalog, eix, priv, threads, conc, ui, enrich>>
    \/ /\ tab = "use"
       /\ \E force_refresh \in BOOLEAN : get_or_cache_useflags(force_refresh)
       /\ UNCHANGED <<now, config, repos, tab, catalog, eix, priv, threads, conc, ui, enrich>>
    \/ /\ tab = "overlays"
       /\ clear_cache
       /\ UNCHANGED <<now, config, repos, tab, catalog, eix, priv, threads, conc, ui, enrich>>
    \/ /\ tab = "use"
       /\ clear_useflags_cache
       /\ UNCHANGED <<now, config, repos, tab, catalog, eix, priv, threads, conc, ui, enrich>>
    \/ Tick
    \/ reload_config

Spec == Init /\ [][Next]_vars

\* ------------------------------------------------- the CacheManager alone
\* The dicts handed to set in the cache-only runs: an overlay record and a
\* USE-flag record.
PayloadDicts ==
    { to_dict([name |-> 1, installed |-> PyNone,
               package_count |-> SKIPPED_PACKAGE_COUNT]),
      useflag_to_dict([name |-> 2, description |-> PyNone]) }

CachePayloads == SeqsUpTo(PayloadDicts, MaxOverlays)

CacheSet(key, data) ==
    /\ set(key, data)
    /\ last' = [NoCall EXCEPT !.op = "set", !.key = key, !.pre = EntryFacts(key),
                              !.outcome = "return"]
    /\ UNCHANGED <<now, config, repos, tab, catalog, eix, priv, threads, conc, ui, enrich>>

CacheDelete(key) ==
    /\ delete(key)
    /\ last' = [NoCall EXCEPT !.op = "delete", !.key = key, !.pre = EntryFacts(key),
                              !.outcome = "return",
                              !.ret = IF delete_result(key) THEN 1 ELSE 0]
    /\ UNCHANGED <<now, config, repos, tab, catalog, eix, priv, threads, conc, ui, enrich>>

CacheClear ==
    /\ clear
    /\ last' = [NoCall EXCEPT !.op = "clear", !.outcome = "return", !.ret = clear_result]
    /\ UNCHANGED <<now, config, repos, tab, catalog, eix, priv, threads, conc, ui, enrich>>

\* A CacheManager on a new, empty cache directory.
InitCache ==
    /\ tab = "overlays"
    /\ data_file = [k \in Keys |-> NoFile]
    /\ meta_file = [k \in Keys |-> NoFile]
    /\ written = [k \in Keys |-> Never]
    /\ now = 0
    /\ config = [overlays_cache_max_age |-> MaxAge, use_cache_max_age |-> MaxAge,
                 skip_package_counting |-> FALSE]
    /\ repos = {1}
    /\ last = NoCall
    /\ NothingRunning

NextCache ==
    \/ \E key \in Keys, data \in CachePayloads : CacheSet(key, data)
    \/ \E key \in Keys : CacheDelete(key)
    \/ CacheClear
    \/ Tick

SpecCache == InitCache /\ [][NextCache]_vars

\* ------------------------------------------- the CacheManager under threads
\* The threads call set and delete on one key, "overlays_data" (a key's two
\* files are touched by calls on that key and by clear only), and clear.
\* The payloads the threads hand to set: 0..MaxOverlays copies of one
\* overlay record.
ConcPayloads ==
    { [i \in 1..n |-> to_dict([name |-> 1, installed |-> PyFalse, package_count |-> 1])]
      : n \in 0..MaxOverlays }

\* One file operation of a CacheManager call in progress.
CacheStep(t) ==
    \/ SetOpenPayload(t)
    \/ SetWritePayload(t)
    \/ SetOpenMeta(t)
    \/ SetWriteMeta(t)
    \/ DeleteCheckPayload(t)
    \/ DeleteUnlinkPayload(t)
    \/ DeleteCheckMeta(t)
    \/ DeleteUnlinkMeta(t)
    \/ ClearGlobPayloads(t)
    \/ ClearUnlinkPayload(t)
    \/ ClearGlobMetas(t)
    \/ ClearUnlinkMeta(t)

\* Two threads call the CacheManager: the UI thread and a worker thread.
ConcThreads == {MainThread, 1}

NextConc ==
    \/ /\ \E t \in ConcThreads, data \in ConcPayloads :
            call(t, "set", "open_payload", CACHE_KEY, data)
       /\ UNCHANGED <<data_file, meta_file, now, config, repos, tab, catalog, eix, priv, last, written,
                      ui, enrich>>
    \/ /\ \E t \in ConcThreads : call(t, "delete", "check_payload", CACHE_KEY, <<>>)
       /\ UNCHANGED <<data_file, meta_file, now, config, repos, tab, catalog, eix, priv, last, written,
                      ui, enrich>>
    \/ /\ \E t \in ConcThreads : call(t, "clear", "glob_payloads", CACHE_KEY, <<>>)
       /\ UNCHANGED <<data_file, meta_file, now, config, repos, tab, catalog, eix, priv, last, written,
                      ui, enrich>>
    \/ /\ \E t \in ConcThreads : CacheStep(t)
       /\ UNCHANGED <<now, config, repos, tab, catalog, eix, priv, ui, enrich>>

SpecConc == InitCache /\ [][NextConc]_vars

\* --------------------------------------------------------- fetch_extra alone
NextEnrich ==
    \/ fetch_extra_call
    \/ \E i \in 1..Len(enrich.future) : pool_task_start(i)
    \/ \E i \in 1..Len(enrich.future) : pool_task_finish(i)
    \/ \E i \in 1..Len(enrich.future) : pool_collect(i)
    \/ fetch_extra_return
    \/ fetch_extra_done
    \/ reload_config

SpecEnrich == InitCache /\ [][NextEnrich]_vars

\* The pool's threads are scheduled, a count query that was started ends, and
\* the calling thread goes on when it can.
SpecEnrichFair ==
    /\ SpecEnrich
    /\ WF_vars(\E i \in 1..Len(enrich.future) : pool_task_start(i))
    /\ WF_vars(\E i \in 1..Len(enrich.future) : pool_task_finish(i))
    /\ WF_vars(\E i \in 1..Len(enrich.future) : pool_collect(i))
    /\ WF_vars(fetch_extra_return)

\* --------------------------------------------------------------- fetch alone
NextFetch ==
    \/ fetch_call
    \/ fetch_done

SpecFetch == InitCache /\ [][NextFetch]_vars

\* ---------------------------------------------------- get_all_useflags alone
SpecEix == InitCache /\ [][get_all_useflags_call]_vars

\* ------------------------------------------------------- privilege.py alone
NextPriv ==
    \/ detect_backend_call
    \/ get_configured_backend_call
    \/ run_privileged_call

SpecPriv == InitCache /\ [][NextPriv]_vars

\* --------------------------------------------------------------- the tabs
\* The app starts on an empty cache directory, with MaxAge as both max ages
\* and package counting enabled.
NextUI ==
    \/ \E w \in Workers : on_mount(w)
    \/ \E w \in Workers, long_enough \in BOOLEAN : search_useflags(w, long_enough)
    \/ \E i \in 1..MaxOverlays : on_data_table_row_selected(i)
    \/ \E w \in Workers, fn \in {"_action_enable_sync", "_action_remove"} :
          on_button_pressed(w, fn)
    \/ \E w \in Workers : worker_cache_check(w)
    \/ \E w \in Workers : worker_fetch(w)
    \/ \E w \in Workers : worker_set_returned(w)
    \/ \E w \in Workers : load_overlays_end(w)
    \/ \E w \in Workers : _perform_search_end(w)
    \/ \E w \in Workers : action_run(w)
    \/ \E w \in Workers : _update_overlay_installation_status(w)
    \/ \E w \in Workers : action_end(w)
    \/ /\ \E t \in Threads : \/ SetOpenPayload(t)
                             \/ SetWritePayload(t)
                             \/ SetOpenMeta(t)
                             \/ SetWriteMeta(t)
       /\ UNCHANGED <<now, config, repos, tab, catalog, eix, priv, ui, enrich>>

SpecUI == InitCache /\ [][NextUI]_vars

\* ------------------------------------------- the tabs over hours and runs
\* The overlays tab alone.
NextTab ==
    \/ \E w \in Workers : on_mount(w)
    \/ \E i \in 1..MaxOverlays : on_data_table_row_selected(i)
    \/ \E w \in Workers, fn \in {"_action_enable_sync", "_action_remove"} :
          on_button_pressed(w, fn)
    \/ \E w \in Workers : worker_cache_check(w)
    \/ \E w \in Workers : worker_fetch(w)
    \/ \E w \in Workers : worker_set_returned(w)
    \/ \E w \in Workers : load_overlays_end(w)
    \/ \E w \in Workers : action_run(w)
    \/ \E w \in Workers : _update_overlay_installation_status(w)
    \/ \E w \in Workers : action_end(w)
    \/ /\ \E t \in Threads : \/ SetOpenPayload(t)
                             \/ SetWritePayload(t)
                             \/ SetOpenMeta(t)
                             \/ SetWriteMeta(t)
       /\ UNCHANGED <<now, config, repos, tab, catalog, eix, priv, ui, enrich>>
    \/ Tick
    \/ restart

SpecTab == InitCache /\ [][NextTab]_vars

\* ================================================================== claims
\* The orchestration step just taken: the call last' describes, made in the
\* unprimed state.
OrchOps == {"get_or_cache", "get_or_cache_useflags"}

OrchMaxAge(op) ==
    IF op = "get_or_cache" THEN config.overlays_cache_max_age
    ELSE config.use_cache_max_age

\* Configuration drift (overlays only): counting is enabled and a record of
\* the cached catalog has a skipped / not-cached count.
Drift(op) ==
    /\ op = "get_or_cache"
    /\ ~config.skip_package_counting
    /\ EntryFacts(CACHE_KEY).sentinel

\* The records the history says are cached under the key of op.
CachedRecords(op) ==
    IF op = "get_or_cache" THEN from_dicts(written[CACHE_KEY].data)
    ELSE useflags_from_dicts(written[CACHE_KEY_USEFLAGS].data)

RecordDicts(op, records) ==
    IF op = "get_or_cache" THEN to_dicts(records) ELSE useflags_to_dicts(records)

\* The call returned `last'.result` after writing it under its key at the
\* current time.
WroteResult ==
    /\ read_payload(data_file'[last'.key])
         = [tag |-> "value", val |-> RecordDicts(last'.op, last'.result)]
    /\ read_age(meta_file'[last'.key], now') = [tag |-> "age", age |-> 0]
    /\ written'[last'.key] = [what |-> "set", at |-> now,
                              data |-> RecordDicts(last'.op, last'.result),
                              damage |-> "none"]

\* The entry of the call's key is set, undamaged and at most max_age old,
\* and there is no drift.
FreshEntry(op, key) ==
    /\ written[key].what = "set"
    /\ written[key].damage = "none"
    /\ now - written[key].at <= OrchMaxAge(op)
    /\ ~Drift(op)

ServedFromCache ==
    /\ last'.fetched = 0
    /\ last'.outcome = "return"
    /\ last'.result = CachedRecords(last'.op)
    /\ data_file' = data_file
    /\ meta_file' = meta_file

\* C1 as stated: a non-forced call on an existing entry that is at most
\* max_age old, with no drift, returns the cached records without a fetch and
\* without rewriting the cache.
C1_AsStated ==
    [][(last'.op \in OrchOps /\ ~last'.force /\ FreshEntry(last'.op, last'.key))
         => ServedFromCache]_vars

\* C1 amended: ... and the cached payload is a non-empty list: then the call
\* returns the cached records without a fetch and without rewriting the
\* cache.
C1_FreshNonEmptyServedFromCache ==
    [][(/\ last'.op \in OrchOps /\ ~last'.force
        /\ FreshEntry(last'.op, last'.key)
        /\ written[last'.key].data # <<>>)
         => ServedFromCache]_vars

\* A non-forced overlay call served an entry set before the last tick.
C1_Witness ==
    /\ last.op = "get_or_cache" /\ ~last.force
    /\ last.fetched = 0 /\ last.outcome = "return" /\ last.result # <<>>
    /\ last.pre.age > 0

\* C2: when the entry is older than max_age, or missing, or the refresh is
\* forced, the call invokes the fetcher, and when the fetch succeeds the
\* fetched records are written under the key with a new timestamp and
\* returned.
C2_StaleMissingForcedRefetches ==
    [][(/\ last'.op \in OrchOps
        /\ \/ last'.force
           \/ written[last'.key].what # "set"
           \/ now - written[last'.key].at > OrchMaxAge(last'.op))
         => /\ last'.fetched = 1
            /\ last'.outcome = "return" => WroteResult]_vars

\* A non-forced USE-flag call refetched an entry older than max_age.
C2_Witness ==
    /\ last.op = "get_or_cache_useflags" /\ ~last.force
    /\ last.pre.what = "set" /\ last.pre.age > config.use_cache_max_age
    /\ last.fetched = 1 /\ last.outcome = "return" /\ last.result # <<>>

\* C3: with counting enabled, a fresh cached catalog with a skipped or
\* not-cached count is a miss, not an error: the fetcher is invoked and, the
\* fetch succeeding, the cache is rewritten with the fresh records, which are
\* returned; the call raises only if the fetcher does.
C3_SentinelDriftRefetches ==
    [][(/\ last'.op = "get_or_cache" /\ ~last'.force
        /\ ~config.skip_package_counting
        /\ written[CACHE_KEY].what = "set" /\ written[CACHE_KEY].damage = "none"
        /\ now - written[CACHE_KEY].at <= config.overlays_cache_max_age
        /\ EntryFacts(CACHE_KEY).sentinel)
         => /\ last'.fetched = 1
            /\ last'.outcome = "return" =>
                 /\ WroteResult
                 /\ \A i \in 1..Len(last'.result) :
                       last'.result[i].package_count # SKIPPED_PACKAGE_COUNT]_vars

\* A fresh catalog with a sentinel count was refetched with counting enabled.
C3_Witness ==
    /\ last.op = "get_or_cache" /\ ~last.force /\ ~config.skip_package_counting
    /\ last.pre.what = "set" /\ last.pre.damage = "none" /\ last.pre.sentinel
    /\ last.pre.age \in 0..config.overlays_cache_max_age
    /\ last.fetched = 1 /\ last.outcome = "return"

\* C4 as stated: with max age 0 every overlay call fetches, whatever the
\* time elapsed since the entry was written (including none).  Stated for
\* the entries nothing has damaged.
C4_AsStated ==
    [][(/\ last'.op = "get_or_cache" /\ config.overlays_cache_max_age = 0
        /\ written[CACHE_KEY].damage = "none")
         => last'.fetched = 1]_vars

\* C4 amended: with max age 0 every overlay call made after the clock has
\* advanced past the entry's write time (or with no entry) fetches.
C4_MaxAgeZeroFetchesOnceClockAdvanced ==
    [][(/\ last'.op = "get_or_cache" /\ config.overlays_cache_max_age = 0
        /\ ~(written[CACHE_KEY].what = "set" /\ now = written[CACHE_KEY].at))
         => last'.fetched = 1]_vars

\* With max age 0, an undamaged non-empty entry one hour old was refetched.
C4_Witness ==
    /\ last.op = "get_or_cache" /\ ~last.force /\ config.overlays_cache_max_age = 0
    /\ last.pre.what = "set" /\ last.pre.damage = "none" /\ ~last.pre.empty
    /\ ~last.pre.sentinel /\ last.pre.age = 1
    /\ last.fetched = 1

\* C6: is_stale(key, max_age) is true exactly when the key has no readable
\* timestamp (never set, deleted, or the timestamp damaged) or the time
\* since its last set exceeds max_age; it is false up to and including
\* max_age.
C6_IsStaleIffNoTimestampOrOlder ==
    \A key \in Keys, max_age \in 0..MaxTime :
        is_stale(key, max_age) <=>
            \/ written[key].what # "set"
            \/ written[key].damage = "meta"
            \/ now - written[key].at > max_age

\* An entry is exactly MaxAge old: not stale for MaxAge, stale for less.
C6_Witness ==
    \E key \in Keys :
        /\ written[key].what = "set" /\ written[key].damage = "none"
        /\ now - written[key].at = MaxAge
        /\ ~is_stale(key, MaxAge)
        /\ is_stale(key, MaxAge - 1)

\* C5: after any sequence of set, delete and clear, get(key) returns the
\* payload of the most recent set(key) not followed by delete(key) or
\* clear(), and None if there is none.
C5_GetReturnsLastSet ==
    \A key \in Keys :
        get(key) = IF written[key].what = "set"
                   THEN [tag |-> "value", val |-> written[key].data]
                   ELSE [tag |-> "none", val |-> <<>>]

\* One key was set to a non-empty payload after the other was removed.
C5_Witness ==
    /\ last.op = "set" /\ last.pre.what = "removed"
    /\ get(last.key).tag = "value" /\ Len(get(last.key).val) = MaxOverlays
    /\ \E key \in Keys : written[key].what = "removed" /\ get(key).tag = "none"

\* No CacheManager call that works on the files of key is in progress.
Quiet(key) == \A t \in Threads : ~InProgress(t, key)

\* The key has a payload file iff it has a timestamp file, and the timestamp
\* was written by the set call that wrote the payload.
PayloadWithItsTimestamp(key) ==
    /\ data_file[key].exists <=> meta_file[key].exists
    /\ data_file[key].exists => conc[key].paired

\* C7 as stated: in every state, those between the file operations of a
\* running set, delete or clear included, a key has a payload file iff it
\* has a timestamp file, and the timestamp is the one written by the set that
\* wrote the payload.
C7_AsStated == \A key \in Keys : PayloadWithItsTimestamp(key)

\* C7 amended: whenever no call on the key is in progress and no call on it
\* was ever entered while another was in progress, the key has a payload
\* file iff it has a timestamp file, the timestamp is the one written by the
\* set that wrote the payload, and get returns that payload.
C7_PairedWhenCallsDoNotOverlap ==
    \A key \in Keys :
        (Quiet(key) /\ ~conc[key].raced) =>
            /\ PayloadWithItsTimestamp(key)
            /\ data_file[key].exists =>
                 /\ get(key) = [tag |-> "value", val |-> written[key].data]
                 /\ get_age(key) = [tag |-> "age", age |-> now - written[key].at]

\* After a set, a delete, a clear and another set, none overlapping, the key
\* has its payload and the timestamp of the same set.
C7_Witness ==
    /\ Quiet(CACHE_KEY) /\ ~conc[CACHE_KEY].raced
    /\ conc[CACHE_KEY].ops = {"set", "delete", "clear"}
    /\ last.op = "set"
    /\ data_file[CACHE_KEY].exists /\ meta_file[CACHE_KEY].exists
    /\ conc[CACHE_KEY].paired
    /\ Len(written[CACHE_KEY].data) = MaxOverlays

\* C8: once concurrent set calls on a key (and nothing but set calls) have
\* all returned, get(key) returns the complete payload of the call whose
\* payload write happened last.
C8_AsStated ==
    \A key \in Keys :
        (/\ \A t \in Threads : threads[t].op = "idle"
         /\ conc[key].raced
         /\ conc[key].ops = {"set"})
          => get(key) = [tag |-> "value", val |-> written[key].data]

\* Thread t has opened the payload file of key for writing and has not yet
\* written the timestamp.
Writing(t, key) ==
    /\ threads[t].op = "set" /\ threads[t].key = key
    /\ threads[t].pc \in {"write_payload", "open_meta", "write_meta"}

\* C9: at most one thread at a time is writing "overlays_data", and at most
\* one "useflags_data".
C9_AsStated ==
    \A key \in Keys : Cardinality({t \in Threads : Writing(t, key)}) <= 1

\* C10: when fetch_extra returns with counting enabled, it returns every
\* overlay of the catalog, in catalog order, each overlay whose count query
\* raised with -1 and every other with the count its own query returned; the
\* only exception fetch_extra raises is the catalog fetch's.
C10_CountFailuresIsolated ==
    /\ enrich.pc = "raised" => enrich.error = "fetch"
    /\ (enrich.pc = "returned" /\ enrich.counting) =>
         /\ Len(enrich.overlays) = Len(enrich.counts)
         /\ \A i \in 1..Len(enrich.overlays) :
              /\ enrich.overlays[i].name = i
              /\ enrich.overlays[i].package_count =
                   IF i \in enrich.raises THEN FAILED_PACKAGE_COUNT
                   ELSE enrich.counts[i]

\* fetch_extra returned MaxOverlays overlays, the first with a failed count,
\* the last with the count of its own query.
C10_Witness ==
    /\ enrich.pc = "returned" /\ enrich.counting
    /\ Len(enrich.overlays) = MaxOverlays
    /\ enrich.raises = {1}
    /\ enrich.overlays[1].package_count = FAILED_PACKAGE_COUNT
    /\ enrich.counts[MaxOverlays] = 2
    /\ enrich.overlays[MaxOverlays].package_count = 2

\* C11: when fetch_extra returns with counting enabled, no count task is
\* pending or running and every record has a package_count; and a call that
\* has submitted its count tasks returns, given that every count query that
\* starts ends.
C11_PoolDrainsBeforeReturn ==
    /\ [](  (enrich.pc = "returned" /\ enrich.counting) =>
              \A i \in 1..Len(enrich.overlays) :
                  /\ enrich.future[i] \notin {"pending", "running"}
                  /\ enrich.overlays[i].package_count # PyNone )
    /\ (enrich.pc = "pool") ~> (enrich.pc = "returned")

\* fetch_extra returned MaxOverlays counted overlays from a pool of two
\* threads.
C11_Witness ==
    /\ enrich.pc = "returned" /\ enrich.counting
    /\ Len(enrich.overlays) = MaxOverlays
    /\ pool_max_workers(enrich.cpu_count) = 2
    /\ \A i \in 1..MaxOverlays : enrich.future[i] = "collected"

\* C12: at every moment of the pool, whatever the order in which the tasks
\* ended and were collected, the record at each position still has the name
\* it was submitted with, has no count until its own task was collected, and
\* from then on has the result of its own task.
C12_ResultAppliedToOwnRecord ==
    (enrich.counting /\ enrich.pc \in {"pool", "returned"}) =>
        \A i \in 1..Len(enrich.overlays) :
            /\ enrich.overlays[i].name = i
            /\ enrich.overlays[i].package_count =
                 IF enrich.future[i] # "collected" THEN PyNone
                 ELSE IF i \in enrich.raises THEN FAILED_PACKAGE_COUNT
                 ELSE enrich.counts[i]

\* The last task was collected while the first, whose query gives another
\* number, is still running.
C12_Witness ==
    /\ enrich.pc = "pool" /\ Len(enrich.overlays) = MaxOverlays
    /\ enrich.raises = {}
    /\ enrich.counts[1] # enrich.counts[MaxOverlays]
    /\ enrich.future[1] = "running"
    /\ enrich.future[MaxOverlays] = "collected"
    /\ enrich.overlays[MaxOverlays].package_count = enrich.counts[MaxOverlays]
    /\ enrich.overlays[1].package_count = PyNone

\* C13: a fetch_extra call that reads skip_package_counting as true and
\* whose fetch succeeds returns with every record at -4, having submitted no
\* task to a pool (a count query runs only in a task); a call that did not
\* count never has a task.
C13_SkippedCountsNoQueries ==
    [][ /\ ~enrich.counting => enrich.future = <<>>
        /\ (/\ enrich.pc = "idle" /\ config.skip_package_counting
            /\ enrich'.pc \notin {"idle", "raised"})
             => /\ enrich'.pc = "returned"
                /\ ~enrich'.counting
                /\ enrich'.future = <<>>
                /\ \A i \in 1..Len(enrich'.overlays) :
                      enrich'.overlays[i].package_count = SKIPPED_PACKAGE_COUNT
      ]_vars

\* fetch_extra returned MaxOverlays overlays, all with the skipped count.
C13_Witness ==
    /\ enrich.pc = "returned" /\ ~enrich.counting
    /\ config.skip_package_counting
    /\ enrich.future = <<>>
    /\ Len(enrich.overlays) = MaxOverlays
    /\ \A i \in 1..MaxOverlays :
          enrich.overlays[i].package_count = SKIPPED_PACKAGE_COUNT

\* C14: a call of get_or_cache or get_or_cache_useflags invokes its fetcher
\* at most once, and a call that invoked it either returns the fetched
\* records, stored under its key, or raises and leaves the cache files as
\* they were: nothing is returned in place of a failed fetch.
C14_FetchOnceFailureRaised ==
    [][ (last'.op \in OrchOps /\ now' = now /\ config' = config) =>
          /\ last'.fetched \in {0, 1}
          /\ last'.fetched = 1 =>
               \/ last'.outcome = "return" /\ WroteResult
               \/ /\ last'.outcome = "raise" /\ last'.result = <<>>
                  /\ data_file' = data_file /\ meta_file' = meta_file
      ]_vars

\* A forced get_or_cache on an entry that was set earlier fetched once and
\* raised: the entry is still there and was not served.
C14_Witness ==
    /\ last.op = "get_or_cache" /\ last.force
    /\ last.fetched = 1 /\ last.outcome = "raise"
    /\ last.pre.what = "set" /\ last.pre.damage = "none" /\ ~last.pre.empty
    /\ get(CACHE_KEY).tag = "value"

\* C15 as stated: get(key) returns the payload or None for every key, in
\* every state of the cache directory, damaged payload files included.
C15_AsStated == \A key \in Keys : get(key).tag \in {"value", "none"}

\* C16: delete(key) leaves the files of every other key as they were; when
\* the key has a payload it returns True and afterwards the key has neither
\* payload nor timestamp; when the key has neither it returns False and no
\* file changes.
C16_DeleteFrame ==
    [][ \A key \in Keys : CacheDelete(key) =>
          /\ \A k \in Keys \ {key} :
                data_file'[k] = data_file[k] /\ meta_file'[k] = meta_file[k]
          /\ IF data_file[key].exists
             THEN /\ last'.ret = 1
                  /\ ~data_file'[key].exists /\ ~meta_file'[key].exists
             ELSE ~meta_file[key].exists =>
                    /\ last'.ret = 0
                    /\ data_file' = data_file /\ meta_file' = meta_file
      ]_vars

\* delete returned True for a key that had been set, and the other key still
\* has its payload of MaxOverlays dicts and its timestamp.
C16_Witness ==
    /\ last.op = "delete" /\ last.ret = 1 /\ last.pre.what = "set"
    /\ ~data_file[last.key].exists /\ ~meta_file[last.key].exists
    /\ \E k \in Keys \ {last.key} :
          /\ get(k).tag = "value" /\ Len(get(k).val) = MaxOverlays
          /\ get_age(k).tag = "age"

\* C17: clear() returns the number of payload files there were before the
\* call; after it list_keys() is empty, no timestamp file is left and every
\* key is stale for every max age.
C17_ClearCountsPayloads ==
    [][ CacheClear =>
          /\ last'.ret = Cardinality({k \in Keys : data_file[k].exists})
          /\ list_keys' = {}
          /\ \A k \in Keys : ~meta_file'[k].exists
          /\ \A k \in Keys, max_age \in 0..MaxAge : is_stale(k, max_age)'
      ]_vars

\* clear() on a directory holding a payload under every key returned their
\* number.
C17_Witness ==
    /\ last.op = "clear" /\ last.ret = Cardinality(Keys)
    /\ list_keys = {}
    /\ \A k \in Keys : written[k].what = "removed" /\ is_stale(k, MaxAge)

\* A <repo> element with a name, an owner with name and email, and quality
\* and status values (the attribute's, or the default of an absent one) that
\* are members of the enumerations.
Qualifies(repo_elem) ==
    /\ repo_elem.name # 0
    /\ repo_elem.owner # <<>>
    /\ repo_elem.owner[1].name # 0 /\ repo_elem.owner[1].email # 0
    /\ attr_get(repo_elem.quality, "experimental") \in OverlayQuality
    /\ attr_get(repo_elem.status, "unofficial") \in OverlayStatus

\* The <source> children with a text and a type that is a SourceType, as
\* Source records, in document order.
RecognizedSources(source_elems) ==
    LET recognized(source_elem) ==
            /\ source_elem.text # 0
            /\ source_elem.type # <<>> /\ source_elem.type[1] \in SourceType
        kept == SelectSeq(source_elems, recognized)
    IN  [i \in 1..Len(kept) |->
            [source_type |-> kept[i].type[1], url |-> kept[i].text]]

\* C18 as stated: whatever document the URL serves, fetch returns, and each
\* qualifying entry is returned with exactly its sources of a recognized
\* kind, in document order; a source of another kind or without a kind is
\* dropped and makes fetch raise nothing.
C18_AsStated ==
    (catalog.pc # "idle" /\ catalog.error # "URLError") =>
        /\ catalog.pc = "returned"
        /\ LET kept == SelectSeq(catalog.document, Qualifies) IN
             /\ Len(catalog.overlays) = Len(kept)
             /\ \A i \in 1..Len(kept) :
                   catalog.overlays[i].sources = RecognizedSources(kept[i].source)

\* C19 as stated: whatever document the URL serves, fetch returns the
\* qualifying entries, in document order, with their name, owner, quality
\* and status, and with installed and package_count unset.
C19_AsStated ==
    (catalog.pc # "idle" /\ catalog.error # "URLError") =>
        /\ catalog.pc = "returned"
        /\ LET kept == SelectSeq(catalog.document, Qualifies) IN
             /\ Len(catalog.overlays) = Len(kept)
             /\ \A i \in 1..Len(kept) :
                   /\ catalog.overlays[i].name = kept[i].name
                   /\ catalog.overlays[i].owner =
                        [name |-> kept[i].owner[1].name,
                         email |-> kept[i].owner[1].email]
                   /\ catalog.overlays[i].quality
                        = attr_get(kept[i].quality, "experimental")
                   /\ catalog.overlays[i].status
                        = attr_get(kept[i].status, "unofficial")
                   /\ catalog.overlays[i].installed = PyNone
                   /\ catalog.overlays[i].package_count = PyNone

\* C20 as stated: the list fetch returns has no two records of the same
\* name, whatever document the URL serves.
C20_AsStated ==
    catalog.pc = "returned" =>
        \A i, j \in 1..Len(catalog.overlays) :
            i # j => catalog.overlays[i].name # catalog.overlays[j].name

\* C21: the list get_all_useflags returns has no name twice, no empty name,
\* no name starting or ending with one of + ! ? * and none without an
\* alphanumeric character; it holds exactly the names that the lines give
\* once their modifiers at both ends are removed and that have an
\* alphanumeric character, each at the place of the first line giving it.
C21_CleanedOnceInFirstSeenOrder ==
    eix.called =>
        LET raw == eix.raw_useflags
            ret == eix.ret
            modifier(c) == c \in {"+", "!", "?", "*"}
            alnum(c) == c \in {"a", "b", "1"}
            \* f is line without its modifiers at both ends
            stripped(line, f) ==
                \E i \in 1..(Len(line) + 1), j \in 0..Len(line) :
                    /\ f = SubSeq(line, i, j)
                    /\ \A k \in 1..(i - 1) : modifier(line[k])
                    /\ \A k \in (j + 1)..Len(line) : modifier(line[k])
                    /\ f # <<>> => ~modifier(f[1]) /\ ~modifier(f[Len(f)])
            kept(f) == \E k \in 1..Len(f) : alnum(f[k])
            first(f) == CHOOSE k \in 1..Len(raw) :
                            /\ stripped(raw[k], f)
                            /\ \A m \in 1..(k - 1) : ~stripped(raw[m], f)
        IN  /\ \A i, j \in 1..Len(ret) : i # j => ret[i] # ret[j]
            /\ \A i \in 1..Len(ret) :
                  /\ ret[i] # <<>>
                  /\ ~modifier(ret[i][1]) /\ ~modifier(ret[i][Len(ret[i])])
                  /\ kept(ret[i])
                  /\ \E k \in 1..Len(raw) : stripped(raw[k], ret[i])
            /\ \A k \in 1..Len(raw) :
                  \A f \in {SubSeq(raw[k], i, j) : i, j \in 1..Len(raw[k])} :
                      (stripped(raw[k], f) /\ kept(f)) =>
                          \E i \in 1..Len(ret) : ret[i] = f
            /\ \A i, j \in 1..Len(ret) : i < j => first(ret[i]) < first(ret[j])

\* A call whose lines give the same name twice under different modifiers,
\* after a line without alphanumeric character and before another name.
C21_Witness ==
    /\ eix.called
    /\ eix.raw_useflags = <<<<"+", "-", "?">>, <<"!", "?", "a", "+">>, <<"a", "*">>>>
    /\ eix.ret = <<<<"a">>>>

\* C22: get_configured_backend returns what detect_backend returns for
\* "auto" in any case, None for "none" in any case, the name itself (in
\* lower case) for pkexec, sudo and doas in any case, and what detect_backend
\* returns for any other name.
C22_ConfiguredBackendResolved ==
    priv.op = "get_configured_backend" =>
        LET name == priv.privilege_backend IN
        /\ name \in {"auto", "AUTO"} => priv.ret = detect_backend(priv.which)
        /\ name \in {"none", "None"} => priv.ret = <<>>
        /\ name = "pkexec" => priv.ret = <<"pkexec">>
        /\ name \in {"sudo", "Sudo"} => priv.ret = <<"sudo">>
        /\ name = "doas" => priv.ret = <<"doas">>
        /\ name \in {"su", ""} => priv.ret = detect_backend(priv.which)

\* "Sudo" is configured and only doas is installed: sudo is returned.
C22_Witness ==
    /\ priv.op = "get_configured_backend"
    /\ priv.privilege_backend = "Sudo" /\ priv.which = {"doas"}
    /\ priv.ret = <<"sudo">>

\* C23: detect_backend returns pkexec when pkexec is installed, else sudo
\* when sudo is, else doas when doas is, else None.
C23_FirstInstalledByPriority ==
    priv.op = "detect_backend" =>
        priv.ret = IF "pkexec" \in priv.which THEN <<"pkexec">>
                   ELSE IF "sudo" \in priv.which THEN <<"sudo">>
                   ELSE IF "doas" \in priv.which THEN <<"doas">>
                   ELSE <<>>

\* sudo and doas are installed, pkexec is not: sudo is returned.
C23_Witness ==
    /\ priv.op = "detect_backend"
    /\ priv.which = {"sudo", "doas"}
    /\ priv.ret = <<"sudo">>

\* C24 as stated: the command run is the terminal tokens (if asked for, or
\* by default, and configured), the token of the resolved backend (if any),
\* and the command; and whenever no backend is installed and backend=None is
\* passed, no backend token is put before the command.
C24_AsStated ==
    (priv.op = "run_privileged" /\ priv.which = {} /\ priv.backend = <<>>) =>
        \E t \in {<<>>, priv.terminal} : priv.ret = t \o priv.cmd

\* C24: the command run is T \o B \o cmd, where T is the configured
\* terminal launcher if use_terminal is true, or is None and a launcher is
\* configured, and is empty otherwise (always for use_terminal=False); B is
\* the one token of the backend passed, or for backend=None of the backend
\* get_configured_backend returns, if that is pkexec, sudo or doas, and is
\* empty otherwise; with no backend installed and backend=None, B is empty
\* unless the configuration names pkexec, sudo or doas.
C24_TerminalThenBackendThenCommand ==
    priv.op = "run_privileged" =>
        LET resolved == IF priv.backend = <<>>
                        THEN get_configured_backend(priv.privilege_backend, priv.which)
                        ELSE priv.backend
            B == IF resolved \in {<<"pkexec">>, <<"sudo">>, <<"doas">>}
                 THEN resolved ELSE <<>>
            T == IF priv.use_terminal = <<TRUE>>
                    \/ (priv.use_terminal = <<>> /\ priv.terminal # <<>>)
                 THEN priv.terminal ELSE <<>>
        IN  /\ priv.ret = T \o B \o priv.cmd
            /\ priv.use_terminal = <<FALSE>> => priv.ret = B \o priv.cmd
            /\ (/\ priv.which = {} /\ priv.backend = <<>>
                /\ priv.privilege_backend
                     \notin {"pkexec", "sudo", "Sudo", "doas"}) => B = <<>>

\* sudo is found by detection, no use_terminal is passed and a launcher is
\* configured: launcher, sudo once, then the command (which itself starts
\* with the word sudo).
C24_Witness ==
    /\ priv.op = "run_privileged"
    /\ priv.which = {"sudo", "doas"} /\ priv.privilege_backend = "auto"
    /\ priv.backend = <<>> /\ priv.use_terminal = <<>>
    /\ priv.cmd = <<"sudo", "true">>
    /\ priv.ret = <<"xterm", "-e", "sudo", "sudo", "true">>

\* C25: for every CPU count the pool size is max(2, min(cpu_count // 2, 8)):
\* 2 up to five CPUs, 8 from sixteen on, half the count between, hence from 2
\* to 8; and while fetch_extra counts, the tasks running (each inside its one
\* count query) are never more than the size of its pool.
C25_PoolBounded ==
    /\ \A cpu_count \in 1..40 :
          /\ pool_max_workers(cpu_count) \in 2..8
          /\ pool_max_workers(cpu_count) =
               IF cpu_count < 6 THEN 2
               ELSE IF cpu_count >= 16 THEN 8 ELSE cpu_count \div 2
    /\ enrich.pc = "pool" =>
          Cardinality({i \in 1..Len(enrich.future) : enrich.future[i] = "running"})
            <= pool_max_workers(enrich.cpu_count)

\* The pool of two threads is full and a third task waits.
C25_Witness ==
    /\ enrich.pc = "pool"
    /\ pool_max_workers(enrich.cpu_count) = 2
    /\ Cardinality({i \in 1..Len(enrich.future) : enrich.future[i] = "running"}) = 2
    /\ \E i \in 1..Len(enrich.future) : enrich.future[i] = "pending"

C28_UnreadableOrEmptyIsMiss ==
    [][ (/\ last'.op \in OrchOps /\ ~last'.force
         /\ exists(last'.key)
         /\ ~is_stale(last'.key, OrchMaxAge(last'.op))
         /\ \/ get(last'.key).tag = "none"
            \/ get(last'.key) = [tag |-> "value", val |-> <<>>])
          => /\ last'.fetched = 1
             /\ last'.outcome = "return" => WroteResult
      ]_vars

\* A non-forced overlay call found a fresh entry whose payload is no
\* msgpack, fetched, and the entry now reads as the records returned.
C28_Witness ==
    /\ last.op = "get_or_cache" /\ ~last.force
    /\ last.pre.what = "set" /\ last.pre.damage = "payload"
    /\ last.pre.age \in 0..config.overlays_cache_max_age
    /\ last.fetched = 1 /\ last.outcome = "return" /\ last.result # <<>>
    /\ get(CACHE_KEY) = [tag |-> "value", val |-> to_dicts(last.result)]

\* C29: with skip_package_counting true, a non-forced get_or_cache on an
\* undamaged non-empty entry at most max_age old returns the cached records
\* without a fetch and without rewriting the cache, whatever their counts.
C29_SkipServesAnyCounts ==
    [][ (/\ last'.op = "get_or_cache" /\ ~last'.force
         /\ config.skip_package_counting
         /\ written[CACHE_KEY].what = "set" /\ written[CACHE_KEY].damage = "none"
         /\ now - written[CACHE_KEY].at <= config.overlays_cache_max_age
         /\ written[CACHE_KEY].data # <<>>)
          => ServedFromCache
      ]_vars

\* With skipping configured, a catalog cached with a real count and a
\* not-cached sentinel was served without a fetch.
C29_Witness ==
    /\ last.op = "get_or_cache" /\ ~last.force /\ config.skip_package_counting
    /\ last.fetched = 0 /\ last.outcome = "return"
    /\ \E i, j \in 1..Len(last.result) :
          /\ last.result[i].package_count = 1
          /\ last.result[j].package_count = NO_CACHE_PACKAGE_COUNT

\* C26: self.overlays changes only when a load ends or when the status
\* update runs for an action whose command returned exit code 0, and only
\* that update starts a set of "overlays_data" on the UI thread; the steps
\* of an action whose command returned another exit code or raised leave
\* self.overlays, the cache files and every set in progress as they were.
C26_StatusChangesOnlyAfterExitZero ==
    [][ LET actions == {"_action_enable_sync", "_action_remove"}
            loaded == \E w \in Workers :
                         ui.work[w].fn = "load_overlays" /\ ui'.work[w] = FreeWorker
            updated == \E w \in Workers :
                          /\ ui.work[w].fn \in actions
                          /\ ui.work[w].stage = "update"
                          /\ ui'.work[w].stage = "updating"
                          /\ ui.work[w].returncode = "0"
        IN  /\ ui'.overlays # ui.overlays => loaded \/ updated
            /\ (threads[MainThread].op # "set"
                 /\ threads'[MainThread].op = "set") => updated
            /\ \A w \in Workers :
                 (/\ ui'.work[w] # ui.work[w]
                  /\ ui.work[w].fn \in actions
                  /\ \/ ui'.work[w].returncode \in {"1", "raise"}
                     \/ ui.work[w].returncode \in {"1", "raise"})
                   => /\ ui'.overlays = ui.overlays
                      /\ data_file' = data_file /\ meta_file' = meta_file
                      /\ threads' = threads
      ]_vars

\* An enable-and-sync of an overlay shown as not installed returned 0, the
\* list shows it installed, and the cache entry reads as the list.
C26_Witness ==
    \E w \in Workers :
        /\ ui.work[w].fn = "_action_enable_sync"
        /\ ui.work[w].stage = "updating" /\ ui.work[w].returncode = "0"
        /\ ui.work[w].result[1].installed = PyFalse
        /\ \E i \in 1..Len(ui.overlays) :
              /\ ui.overlays[i].name = ui.work[w].result[1].name
              /\ ui.overlays[i].installed = PyTrue
        /\ MainFree
        /\ get(CACHE_KEY) = [tag |-> "value", val |-> to_dicts(ui.overlays)]

\* C30: whenever load_overlays is served the catalog from the cache, the
\* latest catalog fetch returned at most overlays_cache_max_age hours ago.
C30_AsStated ==
    [][ \A w \in Workers :
          (/\ ui.work[w].fn = "load_overlays"
           /\ ui.work[w].stage = "start" /\ ui'.work[w].stage = "got")
            => /\ ui.fetched_at # <<>>
               /\ now - ui.fetched_at[1] <= config.overlays_cache_max_age
      ]_vars

====
